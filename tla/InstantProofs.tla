--------------------------- MODULE InstantProofs ---------------------------
(***************************************************************************)
(* Proofs about Instant, for every width of the representation: as long as *)
(* nothing overflowed, the deadline is the start plus the timeout whatever *)
(* was done to them, which is what ExpiryAgrees needs; what was answered   *)
(* stays true because the clock only advances (Sound).                     *)
(***************************************************************************)
EXTENDS Instant, TLAPS

Sound ==
  /\ TypeOK
  /\ start <= clock
  /\ exact => deadline = start + timeout
  /\ AnswersStayTrue

LEMMA RepInt == Rep \subseteq Int
BY RepAssumption DEF Rep

LEMMA ZeroRep == 0 \in Rep /\ 0 \in 0 .. MaxRep
BY RepAssumption DEF Rep

\* The variables are numbers.
LEMMA Numbers ==
  ASSUME TypeOK
  PROVE  clock \in Int /\ start \in Int /\ timeout \in Int /\ deadline \in Int
BY RepInt, RepAssumption DEF TypeOK

\* The result of signed arithmetic is in the representation, and is the exact
\* one when that is.
LEMMA ArithType ==
  ASSUME NEW x
  PROVE  Arith(x) \subseteq Rep /\ (x \in Rep => \A y \in Arith(x) : y = x)
BY DEF Arith

LEMMA QuotientInt ==
  ASSUME NEW x \in Int, NEW y \in Nat \ {0}
  PROVE  Quotient(x, y) \in Int
<1>1. Magnitude(x) \in Nat /\ Magnitude(y) \in Nat \ {0}
  BY DEF Magnitude
<1>2. Magnitude(x) \div Magnitude(y) \in Int
  BY <1>1
<1>. QED
  BY <1>2 DEF Quotient

LEMMA DivideNatural ==
  ASSUME NEW d \in Nat, NEW m \in Nat \ {0}
  PROVE  d \div m >= 0 /\ (d \div m) * m <= d
OBVIOUS

\* Truncation: n whole milliseconds of d are no more than d.
LEMMA CountBound ==
  ASSUME NEW d \in Int, CountMilliseconds(d) > 0
  PROVE  /\ CountMilliseconds(d) \in Int
         /\ CountMilliseconds(d) * Millisecond <= d
<1>1. Millisecond \in Nat \ {0}
  BY MillisecondAssumption
<1>2. CountMilliseconds(d) \in Int
  BY <1>1, QuotientInt DEF CountMilliseconds
<1>3. CASE d < 0
  <2>1. CountMilliseconds(d) = -((-d) \div Millisecond)
    BY <1>1, <1>3 DEF CountMilliseconds, Quotient, Magnitude
  <2>2. -d \in Nat
    BY <1>3
  <2>3. (-d) \div Millisecond >= 0
    BY <1>1, <2>2, DivideNatural
  <2>. QED
    BY <1>1, <1>2, <2>1, <2>2, <2>3
<1>4. CASE d >= 0
  <2>1. CountMilliseconds(d) = d \div Millisecond
    BY <1>1, <1>4 DEF CountMilliseconds, Quotient, Magnitude
  <2>2. (d \div Millisecond) * Millisecond <= d
    BY <1>1, <1>4
  <2>. QED
    BY <1>2, <2>1, <2>2
<1>. QED
  BY <1>2, <1>3, <1>4

-----------------------------------------------------------------------------
\* ArmFor(d) establishes Sound when d is in the representation.
LEMMA ArmSound ==
  ASSUME Sound, NEW d \in Rep, ArmFor(d), exact' \in BOOLEAN,
         exact' => clock + d \in Rep
  PROVE  Sound'
<1>1. PICK e \in Arith(clock + d) : Reset(e)
  BY DEF ArmFor
<1>2. e \in Rep /\ (exact' => e = clock + d)
  BY ArithType
<1>3. TypeOK'
  BY <1>1, <1>2, ZeroRep DEF Sound, TypeOK, ArmFor, Reset
<1>4. AnswersStayTrue'
  BY <1>1 DEF AnswersStayTrue, Reset
<1>. QED
  BY <1>1, <1>2, <1>3, <1>4, RepInt DEF Sound, TypeOK, ArmFor, Reset

\* Adding e to timeout and to deadline keeps their difference, where the sums
\* are exact; e is negated for -=.
LEMMA ShiftSound ==
  ASSUME Sound, NEW e \in Int, NEW x \in Arith(timeout + e),
         NEW d \in Arith(deadline + e),
         timeout' = x, Reset(d), UNCHANGED <<clock, start>>,
         exact' \in BOOLEAN,
         exact' => exact /\ timeout + e \in Rep /\ deadline + e \in Rep
  PROVE  Sound'
<1>1. x \in Rep /\ (exact' => x = timeout + e)
  BY ArithType
<1>2. d \in Rep /\ (exact' => d = deadline + e)
  BY ArithType
<1>3. TypeOK'
  BY <1>1, <1>2, ZeroRep DEF Sound, TypeOK, Reset
<1>4. AnswersStayTrue'
  BY DEF AnswersStayTrue, Reset
<1>5. exact' => deadline' = start' + timeout'
  BY <1>1, <1>2, RepInt DEF Sound, TypeOK, Reset
<1>. QED
  BY <1>3, <1>4, <1>5 DEF Sound

LEMMA LessLeft ==
  ASSUME NEW d \in Int, NEW c \in Int, NEW e \in Int, NEW l \in Int,
         c <= e, d - c <= l
  PROVE  d - e <= l
OBVIOUS

\* The clock goes on: nothing that was answered becomes false.
LEMMA AdvanceSound ==
  ASSUME Sound, clock' \in 0 .. MaxRep, clock <= clock',
         UNCHANGED <<start, timeout, deadline, exact, past, left, asked>>
  PROVE  Sound'
<1>1. TypeOK'
  BY DEF Sound, TypeOK
<1>2. clock' \in Int /\ clock \in Int /\ deadline \in Int /\ start \in Int
  BY RepAssumption, Numbers DEF Sound
<1>3. start <= clock'
  BY <1>2 DEF Sound
<1>4. deadline < clock => deadline < clock'
  BY <1>2
<1>5. ASSUME exact, left # None
      PROVE  deadline - clock' <= left
  <2>1. left \in Rep
    BY <1>5 DEF Sound, TypeOK
  <2>2. left \in Int
    BY <2>1, RepInt
  <2>3. deadline - clock <= left
    BY <1>5 DEF Sound, AnswersStayTrue
  <2>. QED
    BY <1>2, <2>2, <2>3, LessLeft
<1>6. AnswersStayTrue'
  BY <1>4, <1>5 DEF Sound, AnswersStayTrue, Before
<1>. QED
  BY <1>1, <1>3, <1>6 DEF Sound

LEMMA SoundInit == Init => Sound
<1>. SUFFICES ASSUME Init
              PROVE  Sound
  OBVIOUS
<1>1. TypeOK
  BY ZeroRep DEF Init, TypeOK
<1>2. start <= clock /\ deadline = start + timeout
  BY RepAssumption DEF Init
<1>3. AnswersStayTrue
  BY DEF Init, AnswersStayTrue
<1>. QED
  BY <1>1, <1>2, <1>3 DEF Sound

LEMMA SoundStep == Sound /\ [Next]_vars => Sound'
<1>. SUFFICES ASSUME Sound, [Next]_vars
              PROVE  Sound'
  OBVIOUS
<1>1. CASE UNCHANGED vars
  BY <1>1 DEF vars, Sound, TypeOK, AnswersStayTrue, Before
<1>2. CASE Tick
  <2>1. clock' \in 0 .. MaxRep /\ clock <= clock'
    BY <1>2, RepAssumption DEF Tick, Later, Sound, TypeOK
  <2>. QED
    BY <1>2, <2>1, AdvanceSound DEF Tick
<1>3. ASSUME NEW n \in Count, Arm(n)
      PROVE  Sound'
  <2>1. PICK d \in Milliseconds(n) : ArmFor(d)
    BY <1>3 DEF Arm
  <2>2. d \in Rep /\ (n * Millisecond \in Rep => d = n * Millisecond)
    BY ArithType DEF Milliseconds
  <2>. QED
    BY <1>3, <2>1, <2>2, ArmSound DEF Arm
<1>4. ASSUME NEW k \in Factor, Backoff(k)
      PROVE  Sound'
  <2>1. PICK d \in Times(timeout, k) : ArmFor(d)
    BY <1>4 DEF Backoff
  <2>2. d \in Rep /\ (timeout * k \in Rep => d = timeout * k)
    BY ArithType DEF Times
  <2>. QED
    BY <1>4, <2>1, <2>2, ArmSound DEF Backoff
<1>5. ASSUME NEW k \in Factor, Hurry(k)
      PROVE  Sound'
  <2>1. PICK d \in Over(timeout, k) : ArmFor(d)
    BY <1>5 DEF Hurry
  <2>2. d \in Rep /\ (Quotient(timeout, k) \in Rep => d = Quotient(timeout, k))
    BY ArithType DEF Over
  <2>. QED
    BY <1>5, <2>1, <2>2, ArmSound DEF Hurry
<1>6. ASSUME NEW n \in Count, Extend(n)
      PROVE  Sound'
  <2>1. PICK e \in Milliseconds(n) :
          /\ timeout' \in Plus(timeout, e)
          /\ \E d \in Moved(e) : Reset(d)
    BY <1>6 DEF Extend
  <2>2. PICK d \in Moved(e) : Reset(d)
    BY <2>1
  <2>3. e \in Int /\ (n * Millisecond \in Rep => e = n * Millisecond)
    BY ArithType, RepInt DEF Milliseconds
  <2>4. timeout' \in Arith(timeout + e) /\ d \in Arith(deadline + e)
    BY <2>1, <2>2 DEF Plus, Moved
  <2>5. /\ exact' \in BOOLEAN
        /\ exact' => exact /\ timeout + e \in Rep /\ deadline + e \in Rep
        /\ UNCHANGED <<clock, start>>
    BY <1>6, <2>3 DEF Extend
  <2>. QED
    BY <2>2, <2>3, <2>4, <2>5, ShiftSound
<1>7. ASSUME NEW n \in Count, Shorten(n)
      PROVE  Sound'
  <2>1. PICK e \in Milliseconds(n) :
          /\ timeout' \in Minus(timeout, e)
          /\ \E d \in MovedBack(e) : Reset(d)
    BY <1>7 DEF Shorten
  <2>2. PICK d \in MovedBack(e) : Reset(d)
    BY <2>1
  <2>3. e \in Int /\ (n * Millisecond \in Rep => e = n * Millisecond)
    BY ArithType, RepInt DEF Milliseconds
  <2>4. -e \in Int /\ timeout + (-e) = timeout - e
                   /\ deadline + (-e) = deadline - e
    BY <2>3, RepInt DEF Sound, TypeOK
  <2>5. timeout' \in Arith(timeout + (-e)) /\ d \in Arith(deadline + (-e))
    BY <2>1, <2>2, <2>4 DEF Minus, MovedBack
  <2>6. /\ exact' \in BOOLEAN
        /\ exact' => exact /\ timeout + (-e) \in Rep /\ deadline + (-e) \in Rep
        /\ UNCHANGED <<clock, start>>
    BY <1>7, <2>3, <2>4 DEF Shorten
  <2>. QED
    BY <2>2, <2>4, <2>5, <2>6, ShiftSound
<1>8. CASE AskPast
  BY <1>8 DEF AskPast, Sound, TypeOK, AnswersStayTrue, Before
<1>9. CASE AskLeft
  <2>1. left' \in Rep /\ (deadline - clock \in Rep => left' = deadline - clock)
    BY <1>9, ArithType DEF AskLeft, Until, Since
  <2>2. TypeOK'
    BY <1>9, <2>1 DEF AskLeft, Sound, TypeOK
  <2>3. exact' => deadline - clock <= left'
    <3>1. deadline - clock \in Int
      BY Numbers DEF Sound
    <3>2. exact' => left' = deadline - clock
      BY <1>9, <2>1 DEF AskLeft
    <3>. QED
      BY <3>1, <3>2
  <2>4. AnswersStayTrue'
    BY <1>9, <2>3 DEF AskLeft, Sound, AnswersStayTrue, Before
  <2>. QED
    BY <1>9, <2>2, <2>4 DEF AskLeft, Sound
<1>10. CASE Nap
  <2>1. left \in Int
    BY <1>10, RepInt DEF Nap, Sound, TypeOK
  <2>2. /\ CountMilliseconds(left) \in Int
        /\ CountMilliseconds(left) * Millisecond > 0
    <3>1. CountMilliseconds(left) \in Int /\ CountMilliseconds(left) > 0
      BY <1>10, <2>1, CountBound DEF Nap, IsPositive
    <3>. QED
      BY <3>1, MillisecondAssumption
  <2>3. clock' \in 0 .. MaxRep /\ clock <= clock'
    <3>. DEFINE z == CountMilliseconds(left) * Millisecond
    <3>1. clock' = clock + z /\ clock + z \in Rep
      BY <1>10 DEF Nap
    <3>2. z \in Int /\ z > 0
      BY <2>2, MillisecondAssumption
    <3>. HIDE DEF z
    <3>. QED
      BY <3>1, <3>2, RepAssumption DEF Rep, Sound, TypeOK
  <2>. QED
    BY <1>10, <2>3, AdvanceSound DEF Nap
<1>. QED
  BY <1>1, <1>2, <1>3, <1>4, <1>5, <1>6, <1>7, <1>8, <1>9, <1>10 DEF Next

\* Whatever the width of the representation, as long as nothing overflowed
\* is_past() and elapsed() agree on when a timeout is over.
THEOREM ExpiriesAgree == Spec => []ExpiryAgrees
<1>1. Sound => ExpiryAgrees
  BY RepInt, RepAssumption DEF Sound, TypeOK, ExpiryAgrees, Before
<1>. QED
  BY SoundInit, SoundStep, <1>1, PTL DEF Spec

\* Answers of is_past() and until() do not go wrong as the clock advances.
THEOREM AnswersStayTrueAlways == Spec => []AnswersStayTrue
<1>1. Sound => AnswersStayTrue
  BY DEF Sound
<1>. QED
  BY SoundInit, SoundStep, <1>1, PTL DEF Spec

\* The variables keep their types, whatever overflows.
THEOREM TypeCorrect == Spec => []TypeOK
<1>1. Sound => TypeOK
  BY DEF Sound
<1>. QED
  BY SoundInit, SoundStep, <1>1, PTL DEF Spec

-----------------------------------------------------------------------------
\* What until() answered is the time from the reading to the deadline.
LeftIsExact == exact /\ left # None => left = deadline - asked

LEMMA LeftStep ==
  ASSUME Sound, LeftIsExact, [Next]_vars
  PROVE  LeftIsExact'
<1>1. CASE AskLeft
  <2>1. left' \in Arith(deadline - clock) /\ asked' = clock /\ deadline' = deadline
    BY <1>1 DEF AskLeft, Until, Since
  <2>2. exact' => deadline - clock \in Rep
    BY <1>1 DEF AskLeft
  <2>. QED
    BY <2>1, <2>2, ArithType DEF LeftIsExact
<1>2. CASE Tick \/ AskPast \/ Nap \/ UNCHANGED vars
  BY <1>2 DEF Tick, AskPast, Nap, vars, LeftIsExact
<1>3. ASSUME NEW n, Arm(n) \/ Extend(n) \/ Shorten(n)
      PROVE  LeftIsExact'
  BY <1>3 DEF Arm, ArmFor, Extend, Shorten, Reset, LeftIsExact
<1>4. ASSUME NEW k, Backoff(k) \/ Hurry(k)
      PROVE  LeftIsExact'
  BY <1>4 DEF Backoff, Hurry, ArmFor, Reset, LeftIsExact
<1>. QED
  BY <1>1, <1>2, <1>3, <1>4 DEF Next

\* Sleeping for the truncated milliseconds left never passes the deadline by
\* more than the time between asking and falling asleep.
THEOREM NapsEndInTime == Spec => NapEndsInTime
<1>1. Init => LeftIsExact
  BY DEF Init, LeftIsExact
<1>2. ASSUME Sound, LeftIsExact, exact, Nap
      PROVE  clock' - deadline <= clock - asked
  <2>1. left = deadline - asked /\ left \in Int
    BY <1>2, RepInt DEF LeftIsExact, Nap, Sound, TypeOK
  <2>. DEFINE z == CountMilliseconds(left) * Millisecond
  <2>2. z <= left /\ z \in Int
    <3>1. CountMilliseconds(left) \in Int /\ z <= left
      BY <1>2, <2>1, CountBound DEF Nap, IsPositive
    <3>. QED
      BY <3>1, MillisecondAssumption
  <2>3. clock' = clock + z
    BY <1>2 DEF Nap
  <2>4. clock \in Int /\ deadline \in Int /\ asked \in Int
    BY <1>2, Numbers, RepAssumption DEF Sound, TypeOK
  <2>. HIDE DEF z
  <2>. QED
    BY <2>1, <2>2, <2>3, <2>4
<1>3. Sound /\ LeftIsExact /\ [Next]_vars =>
        [exact /\ Nap => clock' - deadline <= clock - asked]_vars
  BY <1>2
<1>4. Sound /\ LeftIsExact /\ [Next]_vars => LeftIsExact'
  BY LeftStep
<1>. QED
  BY SoundInit, SoundStep, <1>1, <1>3, <1>4, PTL DEF Spec, NapEndsInTime
=============================================================================
