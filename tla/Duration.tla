------------------------------ MODULE Duration ------------------------------
(***************************************************************************)
(* vix::Duration: a signed count of nanoseconds of fixed width.  A value   *)
(* of the type is the integer it counts.  Signed arithmetic that leaves    *)
(* the representation is undefined in C++ and the build asks for no        *)
(* wrapping: an operation is the set of the results it may have.           *)
(***************************************************************************)
EXTENDS Integers

CONSTANTS
  MaxRep,      \* the largest rep (2^63 - 1 nanoseconds in the code)
  Millisecond  \* nanoseconds in a millisecond (10^6 in the code)

ASSUME RepAssumption == MaxRep \in Nat \ {0}
ASSUME MillisecondAssumption == Millisecond \in Nat \ {0}

Rep == (-MaxRep - 1) .. MaxRep

\* Mutant: the representation has no end.
Boundless(x) == {x}

\* What signed arithmetic may give when the exact result is x.
Arith(x) == IF x \in Rep THEN {x} ELSE Rep

Magnitude(x) == IF x < 0 THEN -x ELSE x

\* Integer division truncates toward zero.
Quotient(x, y) ==
  IF (x < 0) = (y < 0) THEN Magnitude(x) \div Magnitude(y)
  ELSE -(Magnitude(x) \div Magnitude(y))

\* Mutant: rounds away from zero.
RoundedUp(d) == Quotient(d + Millisecond - 1, Millisecond)

\* milliseconds() and count_milliseconds(): duration_cast multiplies one way
\* and truncates the other.
Milliseconds(n) == Arith(n * Millisecond)
CountMilliseconds(d) == Quotient(d, Millisecond)

\* operator+=, operator-=, operator*= and operator/= (by a nonzero scalar).
Plus(d, e) == Arith(d + e)
Minus(d, e) == Arith(d - e)
Times(d, k) == Arith(d * k)
Over(d, k) == Arith(Quotient(d, k))

\* Mutant: operator-() returns the Duration as it is.
Unchanged(d) == Arith(d)

\* Unary minus; the ratio and the remainder of two Durations.
Negated(d) == Arith(-d)
Ratio(d, e) == Arith(Quotient(d, e))
Remainder(d, e) ==
  IF Quotient(d, e) \in Rep THEN {d - e * Quotient(d, e)} ELSE Rep

IsPositive(d) == d > 0
=============================================================================
