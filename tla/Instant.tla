------------------------------- MODULE Instant -------------------------------
(***************************************************************************)
(* vix::Instant and vix::Duration at work: a timeout that starts at one    *)
(* reading of the steady clock and ends at a deadline, which the program   *)
(* moves, scales and asks about while the clock goes on.                   *)
(*                                                                         *)
(* Every operation is applied to objects read earlier, so each answer may  *)
(* be stale when it is used.  `exact' is a history variable: whether no    *)
(* operation on the current timeout left the representation so far.        *)
(***************************************************************************)
EXTENDS Duration

CONSTANTS
  Count,   \* the numbers of milliseconds the program asks for
  Factor,  \* the scalars it multiplies and divides a Duration by
  None     \* no reading yet

ASSUME CountAssumption == Count \subseteq Rep
ASSUME FactorAssumption == Factor \subseteq Nat \ {0}
ASSUME NoneAssumption == None \notin Rep

VARIABLES
  clock,     \* the steady clock
  start,     \* Instant at which the timeout began
  timeout,   \* Duration of the timeout
  deadline,  \* Instant at which it ends
  exact,
  past,      \* history: is_past() answered true for this deadline
  left,      \* the last now().until(deadline), or None
  asked      \* history: the clock at that reading

vars == <<clock, start, timeout, deadline, exact, past, left, asked>>

TypeOK ==
  /\ clock \in 0 .. MaxRep
  /\ start \in 0 .. MaxRep
  /\ timeout \in Rep
  /\ deadline \in Rep
  /\ exact \in BOOLEAN
  /\ past \in BOOLEAN
  /\ left \in Rep \cup {None}
  /\ asked \in 0 .. MaxRep

\* All three objects are default-constructed: zero, at the clock's epoch.
Init ==
  /\ clock \in 0 .. MaxRep
  /\ start = 0 /\ timeout = 0 /\ deadline = 0
  /\ exact = TRUE
  /\ past = FALSE
  /\ left = None
  /\ asked = 0

-----------------------------------------------------------------------------
\* Mutant: a clock that may be set back.
AnyTime == {c \in 0 .. MaxRep : c # clock}

\* The clock never goes back; between two steps it may advance at will.
Later == {c \in 0 .. MaxRep : c > clock}

Tick ==
  /\ clock' \in Later
  /\ UNCHANGED <<start, timeout, deadline, exact, past, left, asked>>

\* Mutant: later and earlier swapped.
Reversed(i, j) == Arith(j - i)

\* i.since(j); i.until(j) is j.since(i).
Since(i, j) == Arith(i - j)
Until(i, j) == Since(j, i)

Before(i, j) == i < j

\* A new deadline d, of which nothing was asked.
Reset(d) ==
  /\ deadline' = d
  /\ past' = FALSE
  /\ left' = None
  /\ asked' = 0

\* start = now(); deadline = start + timeout, for the Duration d.
ArmFor(d) ==
  /\ start' = clock
  /\ timeout' = d
  /\ \E e \in Arith(clock + d) : Reset(e)
  /\ UNCHANGED clock

\* Duration::milliseconds(n)
Arm(n) ==
  /\ \E d \in Milliseconds(n) : ArmFor(d)
  /\ exact' = (n * Millisecond \in Rep /\ clock + n * Millisecond \in Rep)

\* The timeout is scaled and starts again: timeout *= k, timeout /= k.
Backoff(k) ==
  /\ \E d \in Times(timeout, k) : ArmFor(d)
  /\ exact' = (timeout * k \in Rep /\ clock + timeout * k \in Rep)

Hurry(k) ==
  /\ \E d \in Over(timeout, k) : ArmFor(d)
  /\ exact' = (/\ Quotient(timeout, k) \in Rep
               /\ clock + Quotient(timeout, k) \in Rep)

\* Mutant: the timeout moves and its deadline does not.
NotMoved(e) == {deadline}

Moved(e) == Arith(deadline + e)
MovedBack(e) == Arith(deadline - e)

\* timeout += e; deadline += e, and the same with -=.
Extend(n) ==
  /\ \E e \in Milliseconds(n) :
       /\ timeout' \in Plus(timeout, e)
       /\ \E d \in Moved(e) : Reset(d)
  /\ exact' = (/\ exact
               /\ n * Millisecond \in Rep
               /\ timeout + n * Millisecond \in Rep
               /\ deadline + n * Millisecond \in Rep)
  /\ UNCHANGED <<clock, start>>

Shorten(n) ==
  /\ \E e \in Milliseconds(n) :
       /\ timeout' \in Minus(timeout, e)
       /\ \E d \in MovedBack(e) : Reset(d)
  /\ exact' = (/\ exact
               /\ n * Millisecond \in Rep
               /\ timeout - n * Millisecond \in Rep
               /\ deadline - n * Millisecond \in Rep)
  /\ UNCHANGED <<clock, start>>

\* deadline.is_past()
AskPast ==
  /\ past' = Before(deadline, clock)
  /\ UNCHANGED <<clock, start, timeout, deadline, exact, left, asked>>

\* now().until(deadline)
AskLeft ==
  /\ left' \in Until(clock, deadline)
  /\ asked' = clock
  /\ exact' = (exact /\ deadline - clock \in Rep)
  /\ UNCHANGED <<clock, start, timeout, deadline, past>>

\* The program sleeps for the milliseconds that were left when it asked, if
\* any, and wakes exactly then.
Nap ==
  /\ left # None
  /\ IsPositive(CountMilliseconds(left))
  /\ clock + CountMilliseconds(left) * Millisecond \in Rep
  /\ clock' = clock + CountMilliseconds(left) * Millisecond
  /\ UNCHANGED <<start, timeout, deadline, exact, past, left, asked>>

Next ==
  \/ Tick
  \/ \E n \in Count : Arm(n) \/ Extend(n) \/ Shorten(n)
  \/ \E k \in Factor : Backoff(k) \/ Hurry(k)
  \/ AskPast \/ AskLeft \/ Nap

Spec == Init /\ [][Next]_vars

-----------------------------------------------------------------------------
(* Properties.                                                             *)

\* The two ways of asking whether a timeout is over agree, however the timeout
\* was built, moved and scaled: the deadline is past (is_past()) exactly when
\* more than the timeout elapsed since the start (elapsed() > timeout).
ExpiryAgrees ==
  exact => (Before(deadline, clock) <=> clock - start > timeout)

\* Answers do not go wrong while the clock advances: a deadline that was reported
\* past stays so, and never is there more time left than until() said.
AnswersStayTrue ==
  /\ past => Before(deadline, clock)
  /\ exact /\ left # None => deadline - clock <= left

\* Sleeping for the milliseconds left, truncated, never passes the deadline by
\* more than the time that went by between asking and falling asleep.
NapEndsInTime ==
  [][exact /\ Nap => clock' - deadline <= clock - asked]_vars
=============================================================================
