--------------------------- MODULE IntervalProofs ---------------------------
(***************************************************************************)
(* The schedule of an interval counts every run once and drifts by no more *)
(* than its last wake-up took, for every width of the representation and   *)
(* every interval.  After that, what the divisions of Duration compute for *)
(* operands of any sign.                                                   *)
(***************************************************************************)
EXTENDS Interval, TLAPS

\* The clock never falls behind what was read from it.
Readings == Running => origin <= last /\ last <= clock

\* run() let positive intervals through only.
Positive == Running => interval > 0

\* What is_future() answered stays true.
Due == status = "due" => next <= clock

\* The wait leads from what elapsed() read to the next whole number of
\* intervals.
Planned == exact /\ status = "planned" => last + wait = Target

Sound ==
  /\ TypeOK
  /\ Readings
  /\ Positive
  /\ Due
  /\ Planned
  /\ OnSchedule

-----------------------------------------------------------------------------
(* Arithmetic.                                                             *)

LEMMA RepBounds == \A x \in Int : x \in Rep <=> -MaxRep - 1 <= x /\ x <= MaxRep
BY RepAssumption DEF Rep

LEMMA RepInt == Rep \subseteq Int
BY RepAssumption DEF Rep

LEMMA ArithType ==
  ASSUME NEW x
  PROVE  Arith(x) \subseteq Rep /\ (x \in Rep => Arith(x) = {x})
BY DEF Arith

LEMMA DivideBounds ==
  ASSUME NEW e \in Nat, NEW p \in Nat \ {0}
  PROVE  /\ e \div p \in Nat
         /\ (e \div p) * p <= e
         /\ e < (e \div p) * p + p
OBVIOUS

LEMMA NextMultiple ==
  ASSUME NEW q \in Int, NEW p \in Int
  PROVE  (q + 1) * p = q * p + p /\ p * q = q * p /\ q * p \in Int
OBVIOUS

LEMMA MultipleBound ==
  ASSUME NEW q \in Nat, NEW p \in Nat \ {0}
  PROVE  q <= q * p
OBVIOUS

LEMMA MultipleOrder ==
  ASSUME NEW q \in Int, NEW r \in Int, NEW p \in Nat \ {0}, q <= r
  PROVE  q * p <= r * p
OBVIOUS

LEMMA MultipleLess ==
  ASSUME NEW q \in Int, NEW r \in Int, NEW p \in Nat \ {0},
         (q + 1) * p < (r + 1) * p
  PROVE  r > q
<1>1. q + 1 \in Int /\ r + 1 \in Int
  OBVIOUS
<1>2. SUFFICES ASSUME r + 1 <= q + 1 PROVE FALSE
  BY <1>1
<1>3. (r + 1) * p <= (q + 1) * p
  BY <1>1, <1>2, MultipleOrder
<1>4. (q + 1) * p \in Int /\ (r + 1) * p \in Int
  BY <1>1
<1> QED
  BY <1>3, <1>4

\* The division of a time that is not negative by a positive interval.
LEMMA Division ==
  ASSUME NEW e \in 0 .. MaxRep, NEW p \in 1 .. MaxRep
  PROVE  LET q == Quotient(e, p) IN
         /\ q \in Nat /\ q * p \in Nat
         /\ q * p <= e /\ e < q * p + p
         /\ Ratio(e, p) = {q}
         /\ Remainder(e, p) = {e - q * p}
<1> DEFINE q == Quotient(e, p)
<1>1. e \in Nat /\ p \in Nat \ {0} /\ MaxRep \in Nat
  BY RepAssumption
<1>2. q = e \div p
  BY <1>1 DEF Quotient, Magnitude
<1>3. q \in Nat /\ q * p <= e /\ e < q * p + p
  BY <1>1, <1>2, DivideBounds
<1> HIDE DEF q
<1>4. q * p \in Nat /\ q <= q * p /\ p * q = q * p
  BY <1>1, <1>3, MultipleBound, NextMultiple
<1>5. q \in Rep
  BY <1>1, <1>3, <1>4, RepBounds
<1>6. Ratio(e, p) = {q}
  BY <1>5, ArithType DEF Ratio, q
<1>7. Remainder(e, p) = {e - q * p}
  BY <1>4, <1>5 DEF Remainder, q
<1> QED
  BY <1>3, <1>4, <1>6, <1>7 DEF q

-----------------------------------------------------------------------------
LEMMA InitSound == Init => Sound
<1> SUFFICES ASSUME Init PROVE Sound
  OBVIOUS
<1>1. PICK n \in Count : /\ interval \in Milliseconds(n)
                         /\ exact = (n * Millisecond \in Rep)
  BY DEF Init
<1>2. interval \in Rep
  BY <1>1, ArithType DEF Milliseconds
<1>3. 0 \in 0 .. MaxRep /\ 0 \in Rep
  BY RepAssumption, RepBounds
<1>4. TypeOK
  BY <1>1, <1>2, <1>3 DEF Init, TypeOK
<1> QED
  BY <1>4 DEF Init, Sound, Readings, Positive, Due, Planned, OnSchedule, Running

LEMMA StartSound ==
  ASSUME Sound, Start
  PROVE  Sound'
<1>1. /\ clock \in 0 .. MaxRep /\ clock \in Int /\ interval \in Rep
      /\ interval \in Int /\ interval > 0
  BY RepInt, RepAssumption DEF Sound, TypeOK, Start, IsPositive
<1>2. next' \in Rep /\ (clock + interval \in Rep => next' = clock + interval)
  BY ArithType DEF Start, Plus
<1>3. 0 \in Rep /\ 0 \in 0 .. MaxRep
  BY RepBounds, RepAssumption
<1>4. TypeOK'
  BY <1>1, <1>2, <1>3 DEF Start, Sound, TypeOK
<1>5. Readings' /\ Positive' /\ Due' /\ Planned'
  BY <1>1 DEF Start, Readings, Positive, Due, Planned, Running
<1>6. OnSchedule'
  <2> SUFFICES ASSUME exact'
               PROVE  /\ runs' * interval' <= last' - origin'
                      /\ last' < Target' /\ Target' <= next'
                      /\ next' <= Target' + lag'
    BY DEF OnSchedule
  <2>1. clock + interval \in Rep
    BY DEF Start
  <2>2. next' = clock + interval
    BY <2>1, <1>2
  <2>3. /\ runs' = 0 /\ interval' = interval /\ origin' = clock /\ last' = clock
        /\ lag' = 0
    BY DEF Start
  <2> QED BY <2>2, <2>3, <1>1 DEF Target
<1> QED
  BY <1>4, <1>5, <1>6 DEF Sound

\* What a wake-up computes from the time elapsed.
LEMMA PlanComputes ==
  ASSUME Sound, Plan
  PROVE  /\ runs' \in Nat /\ runs' * interval \in Nat
         /\ interval \in Nat \ {0}
         /\ runs' * interval <= clock - origin
         /\ clock - origin < runs' * interval + interval
         /\ wait' \in 0 .. MaxRep
         /\ clock + wait' = origin + runs' * interval + interval
<1> DEFINE e == clock - origin
           p == interval
           q == Quotient(e, p)
<1>0. Running
  BY DEF Plan, Running
<1>1. /\ clock \in Nat /\ origin \in Nat /\ clock <= MaxRep /\ origin <= clock
      /\ MaxRep \in Nat /\ last \in Nat
  BY <1>0, RepAssumption DEF Sound, TypeOK, Readings
<1>2. interval \in Int /\ interval <= MaxRep /\ interval > 0
  BY <1>0, RepInt, RepBounds DEF Sound, TypeOK, Positive
<1>3. e \in 0 .. MaxRep /\ p \in 1 .. MaxRep
  BY <1>1, <1>2
<1>4. /\ q \in Nat /\ q * p \in Nat
      /\ q * p <= e /\ e < q * p + p
      /\ Ratio(e, p) = {q}
      /\ Remainder(e, p) = {e - q * p}
  BY <1>3, Division
<1>5. Elapsed(origin) = {e}
  BY <1>3, <1>1, RepBounds, ArithType DEF Elapsed
<1>6. PICK elapsed \in Elapsed(origin) :
        /\ runs' \in Ratio(elapsed, interval)
        /\ \E phase \in Remainder(elapsed, interval) :
           \E back \in Negated(phase) : wait' \in Plus(interval, back)
  BY DEF Plan
<1>7. elapsed = e
  BY <1>5, <1>6
<1>8. PICK phase \in Remainder(e, p) :
        \E back \in Negated(phase) : wait' \in Plus(p, back)
  BY <1>6, <1>7
<1>9. PICK back \in Negated(phase) : wait' \in Plus(p, back)
  BY <1>8
<1>10. runs' = q
  BY <1>4, <1>6, <1>7
<1> HIDE DEF e, p, q
<1>11. phase = e - q * p /\ phase \in 0 .. MaxRep /\ phase < p
  BY <1>3, <1>4, <1>8, <1>1
<1>12. back = -phase
  <2>1. -phase \in Rep
    BY <1>11, <1>1, RepBounds
  <2> QED BY <2>1, <1>9, ArithType DEF Negated
<1>13. wait' = p - phase
  <2>1. p + back = p - phase /\ p + back \in Rep
    BY <1>3, <1>11, <1>12, <1>1, RepBounds
  <2> QED BY <2>1, <1>9, ArithType DEF Plus
<1>14. wait' \in 0 .. MaxRep
  BY <1>1, <1>3, <1>11, <1>13
<1>15. clock + wait' = origin + q * p + p
  <2>1. clock = origin + e
    BY <1>1 DEF e
  <2> QED BY <2>1, <1>1, <1>3, <1>4, <1>11, <1>13
<1>16. p \in Nat \ {0}
  BY <1>1, <1>3
<1> QED
  BY <1>4, <1>10, <1>14, <1>15, <1>16 DEF e, p, q

LEMMA PlanSound ==
  ASSUME Sound, Plan
  PROVE  Sound'
<1>1. /\ runs' \in Nat /\ runs' * interval \in Nat
      /\ interval \in Nat \ {0}
      /\ runs' * interval <= clock - origin
      /\ clock - origin < runs' * interval + interval
      /\ wait' \in 0 .. MaxRep
      /\ clock + wait' = origin + runs' * interval + interval
  BY PlanComputes
<1>2. /\ UNCHANGED <<clock, interval, origin, next, lag, exact>>
      /\ last' = clock /\ status' = "planned" /\ Running
  BY DEF Plan, Running
<1>3. /\ clock \in Nat /\ origin \in Nat /\ clock <= MaxRep /\ MaxRep \in Nat
      /\ origin <= clock
  BY <1>2, RepAssumption DEF Sound, TypeOK, Readings
<1>m. PICK m \in Nat : m = runs' * interval
  BY <1>1
<1>n. runs' \in Nat /\ interval \in Nat \ {0}
  BY <1>1
<1>4. runs' <= m
  BY <1>n, <1>m, MultipleBound
<1>o. m <= clock - origin /\ clock - origin < m + interval
  BY <1>1, <1>m
<1>5. runs' \in Rep
  BY <1>n, <1>3, <1>4, <1>o, RepBounds
<1>6. wait' \in Rep
  BY <1>1, <1>3, RepBounds
<1>7. TypeOK'
  BY <1>2, <1>5, <1>6 DEF Sound, TypeOK
<1>8. Readings' /\ Positive' /\ Due'
  BY <1>2, <1>3, <1>n DEF Readings, Positive, Due, Running
<1>9. Target' = origin + (m + interval)
  <2>1. (runs' + 1) * interval = m + interval
    BY <1>m, <1>n, NextMultiple
  <2> QED BY <1>2, <2>1 DEF Target
<1>10. Planned'
  <2>1. clock + wait' = origin + (m + interval)
    <3>1. clock + wait' = origin + m + interval
      BY <1>1, <1>m
    <3> QED BY <3>1, <1>n, <1>3
  <2> QED BY <1>2, <1>9, <2>1 DEF Planned
<1>11. OnSchedule'
  <2>1. clock < origin + (m + interval)
    BY <1>n, <1>o, <1>3
  <2>2. runs' * interval' <= last' - origin' /\ last' < Target'
    BY <1>2, <1>m, <1>o, <1>9, <2>1
  <2> QED BY <1>2, <2>2 DEF OnSchedule
<1> QED
  BY <1>7, <1>8, <1>10, <1>11 DEF Sound

\* Target as a number: the product is what the rest of a step does not touch.
LEMMA TargetInt ==
  ASSUME TypeOK
  PROVE  Target \in Int
BY RepInt, RepAssumption DEF TypeOK, Target

LEMMA RescheduleSound ==
  ASSUME Sound, Reschedule
  PROVE  Sound'
<1>1. /\ UNCHANGED <<clock, interval, origin, runs, wait, last>>
      /\ lag' = clock - last /\ status' = "waiting" /\ status = "planned"
      /\ next' \in Plus(clock, wait) /\ exact' = (exact /\ clock + wait \in Rep)
      /\ Running
  BY DEF Reschedule, Running
<1>2. /\ clock \in 0 .. MaxRep /\ last \in 0 .. MaxRep /\ last <= clock
      /\ MaxRep \in Nat
  BY <1>1, RepAssumption DEF Sound, TypeOK, Readings
<1>3. lag' \in 0 .. MaxRep
  BY <1>1, <1>2
<1>4. next' \in Rep /\ (clock + wait \in Rep => next' = clock + wait)
  BY <1>1, ArithType DEF Plus
<1>5. TypeOK'
  BY <1>1, <1>3, <1>4 DEF Sound, TypeOK
<1>6. Readings' /\ Positive' /\ Due' /\ Planned'
  BY <1>1 DEF Sound, Readings, Positive, Due, Planned, Running
<1>7. Target' = Target
  BY <1>1 DEF Target
<1>8. OnSchedule'
  <2> SUFFICES ASSUME exact'
               PROVE  /\ runs' * interval' <= last' - origin' /\ last' < Target'
                      /\ Target' <= next' /\ next' <= Target' + lag'
    BY DEF OnSchedule
  <2>1. exact /\ next' = clock + wait
    BY <1>1, <1>4
  <2>2. runs * interval <= last - origin /\ last < Target
    BY <1>1, <2>1 DEF Sound, OnSchedule
  <2>3. last + wait = Target
    BY <1>1, <2>1 DEF Sound, Planned
  <2>4. wait \in Int /\ Target \in Int
    BY TargetInt, RepInt DEF Sound, TypeOK
  <2>5. Target <= next' /\ next' <= Target + lag'
    BY <1>1, <1>2, <2>1, <2>3, <2>4
  <2> QED BY <1>1, <1>7, <2>2, <2>5
<1> QED
  BY <1>5, <1>6, <1>8 DEF Sound

LEMMA NextSound == Sound /\ [Next]_vars => Sound'
<1> SUFFICES ASSUME Sound, [Next]_vars PROVE Sound'
  OBVIOUS
<1> USE DEF schedule
<1>1. CASE Tick
  <2>1. /\ clock' \in 0 .. MaxRep /\ clock <= clock' /\ clock \in Int
        /\ last \in Int /\ next \in Int
    BY <1>1, RepInt, RepAssumption DEF Tick, Sound, TypeOK
  <2>2. TypeOK'
    BY <1>1, <2>1 DEF Tick, Sound, TypeOK
  <2>3. clock' \in Int
    BY <2>1, RepAssumption
  <2>4. Readings' /\ Due'
    BY <1>1, <2>1, <2>3, RepAssumption
    DEF Tick, Sound, Readings, TypeOK, Due, Running
  <2> QED BY <1>1, <2>2, <2>4
          DEF Tick, Sound, Positive, Planned, OnSchedule, Running, Target
<1>2. ASSUME NEW k \in Factor, Scale(k) \/ Divide(k) PROVE Sound'
  <2>1. interval' \in Rep
    BY <1>2, ArithType DEF Scale, Divide, Times, Over
  <2>2. TypeOK'
    BY <1>2, <2>1 DEF Scale, Divide, Sound, TypeOK
  <2>3. ~Running' /\ status' = "built"
    BY <1>2 DEF Scale, Divide, Running
  <2> QED BY <2>2, <2>3 DEF Sound, Readings, Positive, Due, Planned, OnSchedule
<1>3. CASE Refuse \/ Stop
  <2>1. TypeOK'
    BY <1>3 DEF Refuse, Stop, Sound, TypeOK
  <2>2. ~Running' /\ status' \in {"built", "invalid_interval"}
    BY <1>3 DEF Refuse, Stop, Running
  <2> QED BY <2>1, <2>2 DEF Sound, Readings, Positive, Due, Planned, OnSchedule
<1>4. CASE Look
  <2>1. next <= clock
    BY <1>4, RepInt, RepAssumption DEF Look, IsFuture, Sound, TypeOK
  <2> QED BY <1>4, <2>1 DEF Look, Sound, TypeOK, Readings, Positive, Due, Planned,
                            OnSchedule, Running, Target
<1>5. CASE UNCHANGED vars
  BY <1>5 DEF vars, Sound, TypeOK, Readings, Positive, Due, Planned, OnSchedule,
              Running, Target
<1> QED
  BY <1>1, <1>2, <1>3, <1>4, <1>5, StartSound, PlanSound, RescheduleSound DEF Next

-----------------------------------------------------------------------------
(* The properties.                                                         *)

\* The variables keep their types.
THEOREM TypeCorrect == Spec => []TypeOK
<1>1. Sound => TypeOK
  BY DEF Sound
<1> QED
  BY InitSound, NextSound, <1>1, PTL DEF Spec

\* For every width and every interval the runs counted are those that were due
\* when elapsed() read the clock, and the next one is not before its time and
\* late by no more than the last wake-up took to compute it.
THEOREM KeepsSchedule == Spec => []OnSchedule
<1>1. Sound => OnSchedule
  BY DEF Sound
<1> QED
  BY InitSound, NextSound, <1>1, PTL DEF Spec

\* A service that wakes when is_future() is false has a new run to do, whatever
\* the clock did before elapsed() read it.
THEOREM NoIdleWake == Spec => WakeFindsWork
<1>1. Sound /\ [Next]_vars => (exact /\ Plan => runs' > runs)
  <2> SUFFICES ASSUME Sound, exact, Plan PROVE runs' > runs
    OBVIOUS
  <2>1. /\ runs' \in Nat /\ interval \in Nat \ {0}
        /\ clock - origin < runs' * interval + interval
    BY PlanComputes
  <2>2. clock \in Int /\ origin \in Int /\ runs \in Int /\ next \in Int
    BY RepInt, RepAssumption DEF Sound, TypeOK
  <2>3. PICK m \in Int, n \in Int :
          m = (runs' + 1) * interval /\ n = (runs + 1) * interval
    <3>1. (runs' + 1) * interval \in Int /\ (runs + 1) * interval \in Int
      BY <2>1, <2>2
    <3> QED BY <3>1
  <2>4. origin + n <= next /\ next <= clock
    <3>1. Target <= next /\ next <= clock
      BY DEF Sound, OnSchedule, Due, Plan
    <3> QED BY <3>1, <2>3 DEF Target
  <2>5. clock - origin < m
    <3>1. (runs' + 1) * interval = runs' * interval + interval
      BY <2>1, NextMultiple
    <3> QED BY <2>1, <2>3, <3>1
  <2>6. n < m
    BY <2>2, <2>3, <2>4, <2>5
  <2>7. runs' \in Int /\ runs \in Int /\ interval \in Nat \ {0}
    BY <2>1, <2>2
  <2>8. (runs + 1) * interval < (runs' + 1) * interval
    BY <2>3, <2>6
  <2> QED BY <2>7, <2>8, MultipleLess
<1>2. Sound /\ [Next]_vars => [exact /\ Plan => runs' > runs]_vars
  BY <1>1
<1> QED
  BY InitSound, NextSound, <1>2, PTL DEF Spec, WakeFindsWork

-----------------------------------------------------------------------------
(* Division with any signs.                                                *)

\* q is the quotient k of the magnitudes x and y of d and e, with its sign; m
\* is the largest multiple of y within x.
Splits(d, e, q, x, y, k, m) ==
  /\ m = k * y /\ m <= x /\ x < m + y
  /\ x = Magnitude(d) /\ y = Magnitude(e)
  /\ \/ d >= 0 /\ e > 0 /\ d = x /\ e = y /\ q = k
     \/ d >= 0 /\ e < 0 /\ d = x /\ e = -y /\ q = -k
     \/ d < 0 /\ e > 0 /\ d = -x /\ e = y /\ q = -k
     \/ d < 0 /\ e < 0 /\ d = -x /\ e = -y /\ q = k

LEMMA QuotientSigned ==
  ASSUME NEW d \in Int, NEW e \in Int \ {0}
  PROVE  \E x \in Nat, y \in Nat \ {0}, k \in Nat, m \in Nat :
           Splits(d, e, Quotient(d, e), x, y, k, m)
<1>1. PICK x \in Nat, y \in Nat \ {0} : x = Magnitude(d) /\ y = Magnitude(e)
  BY DEF Magnitude
<1>2. /\ d = IF d < 0 THEN -x ELSE x
      /\ e = IF e < 0 THEN -y ELSE y
  BY <1>1 DEF Magnitude
<1>3. PICK k \in Nat : /\ k = x \div y
                       /\ k * y <= x /\ x < k * y + y /\ k * y \in Nat
  <2>1. x \div y \in Nat
    BY DivideBounds
  <2>2. (x \div y) * y \in Nat
    BY <2>1
  <2> QED BY <2>1, <2>2, DivideBounds
<1>4. PICK m \in Nat : m = k * y
  BY <1>3
<1>5. Quotient(d, e) = IF (d < 0) = (e < 0) THEN k ELSE -k
  BY <1>1, <1>3 DEF Quotient
<1>6. m <= x /\ x < m + y
  BY <1>3, <1>4
<1>7. \/ d >= 0 /\ e > 0 /\ d = x /\ e = y /\ Quotient(d, e) = k
      \/ d >= 0 /\ e < 0 /\ d = x /\ e = -y /\ Quotient(d, e) = -k
      \/ d < 0 /\ e > 0 /\ d = -x /\ e = y /\ Quotient(d, e) = -k
      \/ d < 0 /\ e < 0 /\ d = -x /\ e = -y /\ Quotient(d, e) = k
  BY <1>2, <1>5
<1> QED
  BY <1>1, <1>4, <1>6, <1>7 DEF Splits

LEMMA ProductSigns ==
  ASSUME NEW k \in Nat, NEW y \in Nat
  PROVE  /\ (-k) * y = -(k * y) /\ k * (-y) = -(k * y)
         /\ (-y) * k = -(k * y) /\ y * (-k) = -(k * y) /\ (-y) * (-k) = k * y
         /\ (-k) * (-y) = k * y /\ k * y = y * k
         /\ k * y \in Nat
OBVIOUS

\* A multiple of y has one factor.
LEMMA OneFactor ==
  ASSUME NEW j \in Nat, NEW k \in Nat, NEW y \in Nat \ {0},
         k * y <= j * y, j * y < k * y + y
  PROVE  j = k
<1>1. /\ (j + 1) * y = j * y + y /\ (k + 1) * y = k * y + y
      /\ j * y \in Nat /\ k * y \in Nat
  BY NextMultiple, ProductSigns
<1>2. ASSUME j < k PROVE FALSE
  <2>1. (j + 1) * y <= k * y
    BY <1>2, MultipleOrder
  <2> QED BY <1>1, <2>1
<1>3. ASSUME k < j PROVE FALSE
  <2>1. (k + 1) * y <= j * y
    BY <1>3, MultipleOrder
  <2> QED BY <1>1, <2>1
<1> QED
  BY <1>2, <1>3

\* What operator/ and operator% give together: the ratio and the remainder of
\* two Durations make up the dividend, the remainder is smaller than the
\* divisor and is not on the other side of zero.  A schedule needs both
\* (Duration.hpp, operator/ and operator%).
THEOREM DivisionSplits ==
  ASSUME NEW d \in Rep, NEW e \in Rep \ {0}, Quotient(d, e) \in Rep,
         NEW q \in Ratio(d, e), NEW r \in Remainder(d, e)
  PROVE  /\ d = e * q + r
         /\ Magnitude(r) < Magnitude(e)
         /\ (d >= 0 => r >= 0) /\ (d <= 0 => r <= 0)
<1>1. d \in Int /\ e \in Int \ {0}
  BY RepInt
<1>2. q = Quotient(d, e) /\ q \in Int
  BY RepInt, ArithType DEF Ratio
<1>3. r = d - e * q
  BY <1>2 DEF Remainder
<1>4. PICK x \in Nat, y \in Nat \ {0}, k \in Nat, m \in Nat :
        Splits(d, e, q, x, y, k, m)
  BY <1>1, <1>2, QuotientSigned
<1>5. /\ m = k * y /\ m <= x /\ x < m + y /\ y = Magnitude(e)
      /\ d = IF d < 0 THEN -x ELSE x
  BY <1>4 DEF Splits
<1>6. e * q = IF d < 0 THEN -m ELSE m
  <2>1. k * y = m /\ y * k = m /\ (-y) * k = -m /\ y * (-k) = -m /\ (-y) * (-k) = m
    BY <1>5, ProductSigns
  <2>2. d >= 0 => (e = y /\ q = k) \/ (e = -y /\ q = -k)
    BY <1>4 DEF Splits
  <2>3. d < 0 => (e = y /\ q = -k) \/ (e = -y /\ q = k)
    BY <1>4 DEF Splits
  <2> QED BY <1>1, <2>1, <2>2, <2>3
<1>7. PICK w \in Int : w = e * q /\ w = IF d < 0 THEN -m ELSE m
  BY <1>6
<1>8. r \in Int /\ d = w + r /\ (r = IF d < 0 THEN -(x - m) ELSE x - m)
  <2>1. r = d - w
    BY <1>3, <1>7
  <2>2. d = IF d < 0 THEN -x ELSE x
    BY <1>5
  <2>3. w = IF d < 0 THEN -m ELSE m
    BY <1>7
  <2>4. CASE d < 0
    BY <1>1, <2>1, <2>2, <2>3, <2>4
  <2>5. CASE ~(d < 0)
    BY <1>1, <2>1, <2>2, <2>3, <2>5
  <2> QED BY <2>4, <2>5
<1>9. Magnitude(r) < Magnitude(e)
  <2>1. m <= x /\ x < m + y
    BY <1>5
  <2>2. Magnitude(r) < y
    BY <1>8, <2>1 DEF Magnitude
  <2> QED BY <1>5, <2>2
<1>10. (d >= 0 => r >= 0) /\ (d <= 0 => r <= 0)
  <2>1. m <= x /\ (d = IF d < 0 THEN -x ELSE x)
    BY <1>5
  <2> QED BY <1>1, <1>8, <2>1
<1>11. d = e * q + r
  BY <1>7, <1>8
<1> QED
  BY <1>9, <1>10, <1>11

\* The only division of two Durations that overflows is that of the smallest
\* one by minus one nanosecond.
THEOREM OneDivisionOverflows ==
  ASSUME NEW d \in Rep, NEW e \in Rep \ {0}
  PROVE  Quotient(d, e) \notin Rep <=> d = -MaxRep - 1 /\ e = -1
<1>1. d \in Int /\ e \in Int \ {0} /\ MaxRep \in Nat \ {0}
      /\ -MaxRep - 1 <= d /\ d <= MaxRep
  BY RepInt, RepBounds, RepAssumption
<1>2. PICK x \in Nat, y \in Nat \ {0}, k \in Nat, m \in Nat :
        Splits(d, e, Quotient(d, e), x, y, k, m)
  BY <1>1, QuotientSigned
<1>3. /\ m = k * y /\ m <= x /\ x < m + y
      /\ \/ d >= 0 /\ e > 0 /\ d = x /\ e = y /\ Quotient(d, e) = k
         \/ d >= 0 /\ e < 0 /\ d = x /\ e = -y /\ Quotient(d, e) = -k
         \/ d < 0 /\ e > 0 /\ d = -x /\ e = y /\ Quotient(d, e) = -k
         \/ d < 0 /\ e < 0 /\ d = -x /\ e = -y /\ Quotient(d, e) = k
  BY <1>2 DEF Splits
<1>4. k <= m
  BY <1>3, MultipleBound
<1>5. Quotient(d, e) \in Int
  BY <1>3
<1>6. ASSUME d = -MaxRep - 1, e = -1 PROVE Quotient(d, e) = MaxRep + 1
  <2>1. x = MaxRep + 1 /\ y = 1 /\ Quotient(d, e) = k
    BY <1>1, <1>3, <1>6
  <2>2. m = k
    BY <1>3, <2>1
  <2> QED BY <1>1, <1>3, <2>1, <2>2
<1>7. ASSUME Quotient(d, e) \notin Rep PROVE d = -MaxRep - 1 /\ e = -1
  <2>1. Quotient(d, e) > MaxRep \/ Quotient(d, e) < -MaxRep - 1
    BY <1>1, <1>5, <1>7, RepBounds
  <2>2. x <= MaxRep + 1 /\ k <= MaxRep + 1
    BY <1>1, <1>3, <1>4
  <2>3. k = MaxRep + 1 /\ Quotient(d, e) = k /\ x = MaxRep + 1 /\ m = k
    BY <1>1, <1>3, <1>4, <2>1, <2>2
  <2>4. d < 0 /\ e < 0 /\ d = -MaxRep - 1
    BY <1>1, <1>3, <2>3
  <2>5. y = 1
    <3>1. ASSUME y >= 2 PROVE FALSE
      <4>1. k * 2 <= k * y
        BY <3>1
      <4> QED BY <1>1, <1>3, <2>3, <4>1
    <3> QED BY <3>1
  <2> QED BY <1>3, <2>4, <2>5
<1>8. MaxRep + 1 \notin Rep
  BY <1>1, RepBounds
<1> QED
  BY <1>6, <1>7, <1>8

\* What milliseconds() accepts without overflow comes back from
\* count_milliseconds(), negative counts included, and count_milliseconds()
\* drops less than a millisecond of any Duration.
THEOREM MillisecondsComeBack ==
  /\ \A n \in Int : n * Millisecond \in Rep =>
       \A d \in Milliseconds(n) : CountMilliseconds(d) = n
  /\ \A d \in Rep : LET c == CountMilliseconds(d) * Millisecond IN
       /\ Magnitude(d - c) < Millisecond
       /\ Magnitude(c) <= Magnitude(d)
<1> DEFINE e == Millisecond
<1>1. e \in Nat \ {0}
  BY MillisecondAssumption
<1>2. e \in Int \ {0} /\ ~(e < 0)
  BY <1>1
<1>3. ASSUME NEW d \in Int
      PROVE  \E x \in Nat, y \in Nat \ {0}, k \in Nat, m \in Nat :
             /\ m = k * y /\ m <= x /\ x < m + y /\ y = e /\ x = Magnitude(d)
             /\ \/ d >= 0 /\ d = x /\ CountMilliseconds(d) = k
                \/ d < 0 /\ d = -x /\ CountMilliseconds(d) = -k
  <2> HIDE DEF e
  <2>1. PICK x \in Nat, y \in Nat \ {0}, k \in Nat, m \in Nat :
          Splits(d, e, Quotient(d, e), x, y, k, m)
    BY <1>2, QuotientSigned
  <2>2. CountMilliseconds(d) = Quotient(d, e)
    BY DEF CountMilliseconds, e
  <2>3. y = e
    BY <1>1, <2>1 DEF Splits, Magnitude
  <2>4. /\ m = k * y /\ m <= x /\ x < m + y /\ x = Magnitude(d)
        /\ \/ d >= 0 /\ d = x /\ CountMilliseconds(d) = k
           \/ d < 0 /\ d = -x /\ CountMilliseconds(d) = -k
    BY <1>2, <2>1, <2>2 DEF Splits
  <2> QED BY <2>3, <2>4
<1>4. ASSUME NEW n \in Int, n * e \in Rep, NEW d \in Milliseconds(n)
      PROVE  CountMilliseconds(d) = n
  <2>1. d = n * e /\ d \in Int
    BY <1>4, RepInt, ArithType DEF Milliseconds
  <2>2. PICK x \in Nat, y \in Nat \ {0}, k \in Nat, m \in Nat :
             /\ m = k * y /\ m <= x /\ x < m + y /\ y = e /\ x = Magnitude(d)
             /\ \/ d >= 0 /\ d = x /\ CountMilliseconds(d) = k
                \/ d < 0 /\ d = -x /\ CountMilliseconds(d) = -k
    BY <1>3, <2>1
  <2>3. CASE n >= 0
    <3>1. n \in Nat /\ d = n * y
      BY <1>4, <2>1, <2>2, <2>3
    <3>2. n * y \in Nat
      BY <3>1, ProductSigns
    <3>3. x = n * y /\ CountMilliseconds(d) = k
      BY <2>2, <3>1, <3>2
    <3>4. k * y <= n * y /\ n * y < k * y + y
      BY <2>2, <3>3
    <3> QED BY <3>1, <3>3, <3>4, OneFactor
  <2>4. CASE n < 0
    <3>1. PICK j \in Nat : j = -n /\ n = -j /\ j > 0
      BY <1>4, <2>4
    <3>2. d = -(j * y) /\ j * y \in Nat
      BY <2>1, <2>2, <3>1, ProductSigns
    <3>3. j * y > 0
      BY <3>1, <3>2, MultipleBound
    <3>4. x = j * y /\ CountMilliseconds(d) = -k
      BY <2>2, <3>2, <3>3
    <3>5. k * y <= j * y /\ j * y < k * y + y
      BY <2>2, <3>4
    <3>6. j = k
      BY <3>5, OneFactor
    <3> QED BY <3>1, <3>4, <3>6
  <2> QED BY <2>3, <2>4
<1>5. ASSUME NEW d \in Rep
      PROVE  LET c == CountMilliseconds(d) * e IN
             Magnitude(d - c) < e /\ Magnitude(c) <= Magnitude(d)
  <2>1. d \in Int
    BY <1>5, RepInt
  <2>2. PICK x \in Nat, y \in Nat \ {0}, k \in Nat, m \in Nat :
             /\ m = k * y /\ m <= x /\ x < m + y /\ y = e /\ x = Magnitude(d)
             /\ \/ d >= 0 /\ d = x /\ CountMilliseconds(d) = k
                \/ d < 0 /\ d = -x /\ CountMilliseconds(d) = -k
    BY <1>3, <2>1
  <2>3. PICK c \in Int : /\ c = CountMilliseconds(d) * e
                         /\ c = IF d < 0 THEN -m ELSE m
    <3>1. d >= 0 => CountMilliseconds(d) * e = m
      BY <2>2
    <3>2. d < 0 => CountMilliseconds(d) * e = -m
      BY <2>2, ProductSigns
    <3> QED BY <2>1, <3>1, <3>2
  <2>4. Magnitude(d - c) < e /\ Magnitude(c) <= Magnitude(d)
    BY <2>1, <2>2, <2>3 DEF Magnitude
  <2> QED BY <2>3, <2>4
<1> QED
  BY <1>4, <1>5
=============================================================================
