------------------------------ MODULE Interval ------------------------------
(***************************************************************************)
(* The service of examples/service.cpp, which refuses an interval that is  *)
(* not positive, and the schedule an interval is for: the ratio and the    *)
(* remainder of the time elapsed say which run is due and how long it is   *)
(* to the next.                                                            *)
(*                                                                         *)
(* is_future(), elapsed() and now() each read the steady clock anew, so a  *)
(* wake-up takes three steps, and the clock may go on between any two.     *)
(***************************************************************************)
EXTENDS Duration

CONSTANTS
  Count,   \* the numbers of milliseconds an interval is made of
  Factor   \* the scalars it is multiplied and divided by

ASSUME CountAssumption == Count \subseteq Int
ASSUME FactorAssumption == Factor \subseteq Nat \ {0}

VARIABLES
  clock,     \* the steady clock
  interval,  \* Service::interval_
  status,    \* what the service is doing
  origin,    \* Instant at which the schedule began
  next,      \* Instant of the next run
  runs,      \* the runs that were due so far
  wait,      \* how long it is to the next run, as computed from `last'
  last,      \* history: what elapsed() read
  lag,       \* history: how much later the now() was that `wait' was added to
  exact      \* history: no operation left the representation

schedule == <<origin, next, runs, wait, last, lag>>
vars == <<clock, interval, status, schedule, exact>>

\* Running: asleep until `next', found it not in the future, or planned.
Running == status \in {"waiting", "due", "planned"}

TypeOK ==
  /\ clock \in 0 .. MaxRep
  /\ interval \in Rep
  /\ status \in {"built", "invalid_interval", "waiting", "due", "planned"}
  /\ origin \in 0 .. MaxRep
  /\ next \in Rep
  /\ runs \in Rep
  /\ wait \in Rep
  /\ last \in 0 .. MaxRep
  /\ lag \in 0 .. MaxRep
  /\ exact \in BOOLEAN

Init ==
  /\ clock \in 0 .. MaxRep
  /\ \E n \in Count : /\ interval \in Milliseconds(n)
                      /\ exact = (n * Millisecond \in Rep)
  /\ status = "built"
  /\ origin = 0 /\ next = 0 /\ runs = 0 /\ wait = 0 /\ last = 0 /\ lag = 0

-----------------------------------------------------------------------------
Tick ==
  /\ clock' \in {c \in 0 .. MaxRep : c > clock}
  /\ UNCHANGED <<interval, status, schedule, exact>>

\* The program scales the interval before it builds the service with it.
Scale(k) ==
  /\ status = "built"
  /\ interval' \in Times(interval, k)
  /\ exact' = (exact /\ interval * k \in Rep)
  /\ UNCHANGED <<clock, status, schedule>>

Divide(k) ==
  /\ status = "built"
  /\ interval' \in Over(interval, k)
  /\ UNCHANGED <<clock, status, schedule, exact>>

\* Service::run()
Refuse ==
  /\ status = "built"
  /\ ~IsPositive(interval)
  /\ status' = "invalid_interval"
  /\ UNCHANGED <<clock, interval, schedule, exact>>

\* The schedule begins now, with one interval to the first run.
Start ==
  /\ status = "built"
  /\ IsPositive(interval)
  /\ status' = "waiting"
  /\ origin' = clock
  /\ next' \in Plus(clock, interval)
  /\ runs' = 0 /\ wait' = interval /\ last' = clock /\ lag' = 0
  /\ exact' = (exact /\ clock + interval \in Rep)
  /\ UNCHANGED <<clock, interval>>

\* Mutant: is_past() in the place of is_future().
IsPast(i) == i < clock

\* i.elapsed() and i.is_future()
Elapsed(i) == Arith(clock - i)
IsFuture(i) == i > clock

\* next.is_future() is false: a run is due.
Look ==
  /\ status = "waiting"
  /\ ~IsFuture(next)
  /\ status' = "due"
  /\ UNCHANGED <<clock, interval, schedule, exact>>

\* origin.elapsed(): the runs since the origin are counted, and the rest of the
\* current interval is how long to wait: interval + -(elapsed % interval).
Plan ==
  /\ status = "due"
  /\ \E elapsed \in Elapsed(origin) :
       /\ runs' \in Ratio(elapsed, interval)
       /\ \E phase \in Remainder(elapsed, interval) :
          \E back \in Negated(phase) : wait' \in Plus(interval, back)
  /\ last' = clock
  /\ status' = "planned"
  /\ UNCHANGED <<clock, interval, origin, next, lag, exact>>

\* next = now() + wait
Reschedule ==
  /\ status = "planned"
  /\ next' \in Plus(clock, wait)
  /\ exact' = (exact /\ clock + wait \in Rep)
  /\ lag' = clock - last
  /\ status' = "waiting"
  /\ UNCHANGED <<clock, interval, origin, runs, wait, last>>

\* The service ends, and may be run again with the interval it has.
Stop ==
  /\ Running
  /\ status' = "built"
  /\ UNCHANGED <<clock, interval, schedule, exact>>

Next ==
  \/ Tick
  \/ \E k \in Factor : Scale(k) \/ Divide(k)
  \/ Refuse \/ Start
  \/ Look \/ Plan \/ Reschedule
  \/ Stop

Spec == Init /\ [][Next]_vars

-----------------------------------------------------------------------------
(* Properties.                                                             *)

\* The first whole number of intervals that is not yet counted.
Target == origin + (runs + 1) * interval

\* However late the service wakes, it counts exactly the runs that were due
\* when elapsed() read the clock, and the next one is never before its time and
\* never later than by the time between that reading and the now() the wait was
\* added to: what one wake-up drifts, the next one makes good.
OnSchedule ==
  /\ exact /\ Running => runs * interval <= last - origin /\ last < Target
  /\ exact /\ status \in {"waiting", "due"} =>
       Target <= next /\ next <= Target + lag

\* A service that wakes because its next run is not in the future has a run to
\* do that it did not do before: is_future() and the ratio never disagree,
\* although each reads the clock anew.
WakeFindsWork == [][exact /\ Plan => runs' > runs]_vars
=============================================================================
