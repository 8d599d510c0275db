------------------------------- MODULE Result -------------------------------
(***************************************************************************)
(* vix::Result<T, E>: objects holding a value or an error in a             *)
(* std::variant, whose copies, moves and assignments are the variant's.    *)
(*                                                                         *)
(* The payload types T and E decide which of their special members may     *)
(* throw (throwing).  A variant that loses its alternative to an exception *)
(* while another one is being built is left without any: "valueless".      *)
(*                                                                         *)
(* A payload whose own constructor throws leaves the source of the copy or *)
(* move as it was; Moved is a payload that is valid but unspecified.       *)
(***************************************************************************)
EXTENDS Naturals

CONSTANTS
  Obj,       \* Result objects
  Val, Err,  \* values of T and of E
  Moved,     \* a payload that was moved from, or left by a failed assignment
  None

Alternative == {"value", "error"}
Member == {"copy", "move", "copyAssign", "moveAssign"}

ASSUME PayloadAssumption ==
  Moved \notin Val \cup Err \cup {None} /\ None \notin Val \cup Err

VARIABLES
  throwing,   \* <<m, a>>: special member m of alternative a may throw
  slot,       \* slot[o]: storage_ of o, or None outside o's lifetime
  thrown,     \* how the last operation ended
  terminated  \* an exception left a noexcept function

vars == <<throwing, slot, thrown, terminated>>

Value(x) == [alt |-> "value", data |-> x]
Error(e) == [alt |-> "error", data |-> e]
Valueless == [alt |-> "valueless", data |-> None]

Storage == {Value(x) : x \in Val \cup {Moved}}
             \cup {Error(e) : e \in Err \cup {Moved}} \cup {Valueless}

ASSUME NoneAssumption == None \notin Storage

TypeOK ==
  /\ throwing \subseteq Member \X Alternative
  /\ slot \in [Obj -> Storage \cup {None}]
  /\ thrown \in {"none", "payload", "access"}
  /\ terminated \in BOOLEAN

Init ==
  /\ throwing \in SUBSET (Member \X Alternative)
  /\ slot = [o \in Obj |-> None]
  /\ thrown = "none"
  /\ terminated = FALSE

Live(o) == slot[o] # None
Throws(m, a) == <<m, a>> \in throwing

-----------------------------------------------------------------------------
(* Observers.                                                              *)

HasValue(o) == slot[o].alt = "value"
HasError(o) == ~HasValue(o)

\* std::get<0> and std::get<1> throw unless their alternative is there, where
\* value_if() and error_if() return null.
Holds(o, a) == slot[o].alt = a

-----------------------------------------------------------------------------
(* Ends of an operation.                                                   *)

Keep == UNCHANGED <<throwing, terminated>>

\* The operation succeeds and leaves the objects as f says.
Ends(f) == slot' = f /\ thrown' = "none" /\ Keep

\* It ends with an exception e and leaves them as f says.
Fails(e, f) == slot' = f /\ thrown' = e /\ Keep

\* It ends the program: the exception meets a noexcept boundary.
Terminate == terminated' = TRUE /\ UNCHANGED <<throwing, slot, thrown>>

\* Mutants: a Result that is moved from becomes empty; an empty one is not
\* told apart.
MovedToNothing(o) == [slot EXCEPT ![o] = Valueless]
MovedWhole(o) == [slot EXCEPT ![o].data = Moved]

\* The payload of o is moved from: it keeps its alternative.
MovedFrom(o) ==
  IF slot[o] = Valueless THEN slot ELSE [slot EXCEPT ![o].data = Moved]

\* o is built with storage s, or the constructor of its payload, which throws
\* when canThrow, ends o before it exists.
Build(o, s, canThrow) ==
  \/ Ends([slot EXCEPT ![o] = s])
  \/ canThrow /\ Fails("payload", slot)

-----------------------------------------------------------------------------
(* Lifetime and assignment.                                                *)

\* success() and failure() build the payload from any argument.
Success(o, x) == ~Live(o) /\ Build(o, Value(x), TRUE)

Failure(o, e) == ~Live(o) /\ Build(o, Error(e), TRUE)

CopyConstruct(o, p) ==
  ~Live(o) /\ Live(p) /\ Build(o, slot[p], Throws("copy", slot[p].alt))

MoveConstruct(o, p) ==
  /\ ~Live(o) /\ Live(p)
  /\ \/ Ends([MovedFrom(p) EXCEPT ![o] = slot[p]])
     \/ Throws("move", slot[p].alt) /\ Fails("payload", slot)

Destroy(o) == Live(o) /\ Ends([slot EXCEPT ![o] = None])

\* The alternative of p replaces that of o by T::operator= when both are equal.
SameAlternative(o, p) == slot[o].alt = slot[p].alt /\ slot[p] # Valueless

\* The assignment of equal alternatives throws: the payload of o is what its
\* own operator= leaves.
AssignThrows(o, m) ==
  /\ Throws(m, slot[o].alt)
  /\ \E d \in {slot[o].data, Moved} :
       Fails("payload", [slot EXCEPT ![o].data = d])

\* emplace() destroyed the old alternative before the new one failed.
EmplaceThrows(o) == Fails("payload", [slot EXCEPT ![o] = Valueless])

\* variant::operator=(const variant &) builds the new alternative in place when
\* its copy cannot throw or its move may; else it copies first, then moves.
EmplacesCopy(a) == ~Throws("copy", a) \/ Throws("move", a)

CopyAssign(o, p) ==
  /\ Live(o) /\ Live(p)
  /\ \/ Ends([slot EXCEPT ![o] = slot[p]])
     \/ SameAlternative(o, p) /\ AssignThrows(o, "copyAssign")
     \/ /\ ~SameAlternative(o, p) /\ Throws("copy", slot[p].alt)
        /\ \/ EmplacesCopy(slot[p].alt) /\ EmplaceThrows(o)
           \/ ~EmplacesCopy(slot[p].alt) /\ Fails("payload", slot)

\* The exception specification of Result::operator=(Result &&).
NoexceptMoveAssign == \A a \in Alternative : ~Throws("moveAssign", a)

\* A payload that is moved to itself is unspecified.
MoveAssign(o, p) ==
  /\ Live(o) /\ Live(p)
  /\ \/ Ends([MovedFrom(p) EXCEPT ![o] = slot[p]])
     \/ o = p /\ Ends(MovedFrom(o))
     \/ SameAlternative(o, p) /\ AssignThrows(o, "moveAssign")
     \/ /\ ~SameAlternative(o, p) /\ Throws("move", slot[p].alt)
        /\ IF NoexceptMoveAssign THEN Terminate ELSE EmplaceThrows(o)

-----------------------------------------------------------------------------
(* Access and composition.                                                 *)

\* value() and error(), on an lvalue or an rvalue.
Access(o, a) ==
  /\ Live(o)
  /\ IF Holds(o, a) THEN Ends(slot) ELSE Fails("access", slot)

\* value_or() copies the value out of an lvalue, or builds the fallback from
\* any argument.
ValueOr(o) ==
  /\ Live(o)
  /\ \/ Ends(slot)
     \/ (HasValue(o) => Throws("copy", "value")) /\ Fails("payload", slot)

\* value_or() moves it out of an rvalue.
ValueOrMove(o) ==
  /\ Live(o)
  /\ \/ Ends(IF HasValue(o) THEN MovedFrom(o) ELSE slot)
     \/ (HasValue(o) => Throws("move", "value")) /\ Fails("payload", slot)

\* What the callable of map() may produce, and that of and_then().
Mapped == {Value(x) : x \in Val}
Chained == Mapped \cup {Error(e) : e \in Err}

\* The callable is invoked with a reference to the value, from which it may
\* move: it gives one of the results R or throws.
Invoke(d, o, R) ==
  \E f \in {slot, MovedFrom(o)} :
    \/ \E r \in R : Ends([f EXCEPT ![d] = r])
    \/ Fails("payload", f)

\* Mutant: the error is moved twice on its way.
ForwardTwice(d, o, rvalue) ==
  LET f == MovedFrom(o) IN
  IF ~Holds(o, "error") THEN Fails("access", slot)
  ELSE Ends([f EXCEPT ![d] = f[o]])

\* Without a value the error is forwarded, by copy or by move, to the result.
Forward(d, o, rvalue) ==
  LET m == IF rvalue THEN "move" ELSE "copy" IN
  IF ~Holds(o, "error") THEN Fails("access", slot)
  ELSE \/ Ends([(IF rvalue THEN MovedFrom(o) ELSE slot) EXCEPT ![d] = slot[o]])
       \/ Throws(m, "error") /\ Fails("payload", slot)

Compose(d, o, R, rvalue) ==
  /\ Live(o) /\ ~Live(d)
  /\ IF HasValue(o) THEN Invoke(d, o, R) ELSE Forward(d, o, rvalue)

Map(d, o) == Compose(d, o, Mapped, FALSE)
MapMove(d, o) == Compose(d, o, Mapped, TRUE)
AndThen(d, o) == Compose(d, o, Chained, FALSE)
AndThenMove(d, o) == Compose(d, o, Chained, TRUE)

-----------------------------------------------------------------------------
Step(o) ==
  \/ \E x \in Val : Success(o, x)
  \/ \E e \in Err : Failure(o, e)
  \/ Destroy(o)
  \/ \E a \in Alternative : Access(o, a)
  \/ ValueOr(o) \/ ValueOrMove(o)
  \/ \E p \in Obj :
       \/ CopyConstruct(o, p) \/ MoveConstruct(o, p)
       \/ CopyAssign(o, p) \/ MoveAssign(o, p)
       \/ Map(o, p) \/ MapMove(o, p) \/ AndThen(o, p) \/ AndThenMove(o, p)

Next == ~terminated /\ \E o \in Obj : Step(o)

Spec == Init /\ [][Next]_vars

-----------------------------------------------------------------------------
(* Properties.                                                             *)

NothrowMoves == \A a \in Alternative : ~Throws("move", a)

\* "Represents either a value or an error": with payloads that move without
\* throwing, no copy, assignment or failure of one ever leaves a Result empty.
EitherValueOrError ==
  NothrowMoves => \A o \in Obj : Live(o) => slot[o].alt \in Alternative

\* With such payloads an operation that fails changes no Result from a value to
\* an error or back, and begins and ends no lifetime.
FailureKeepsAlternatives ==
  [][NothrowMoves /\ thrown' # "none" =>
       \A o \in Obj :
         /\ slot'[o] = None <=> slot[o] = None
         /\ Live(o) => slot'[o].alt = slot[o].alt]_vars

\* o is assigned the other alternative, whose move may throw, and the assignment
\* fails.
LosesAlternative(o, p) ==
  /\ CopyAssign(o, p) \/ MoveAssign(o, p)
  /\ slot[p].alt # slot[o].alt /\ Throws("move", slot[p].alt)
  /\ thrown' = "payload"

\* o is copied or moved from an empty Result.
TakesEmpty(o, p) ==
  /\ \/ CopyConstruct(o, p) \/ MoveConstruct(o, p)
     \/ CopyAssign(o, p) \/ MoveAssign(o, p)
  /\ slot[p] = Valueless /\ thrown' = "none"

\* Whatever may throw, a Result becomes empty only as the target of a failed
\* assignment of the other alternative, whose move may throw, or as a copy of
\* a Result that is empty: no source of a copy, a move or a chain is emptied,
\* nor the target of an assignment whose payloads move without throwing.
ValuelessHasCause ==
  [][\A o \in Obj : slot'[o] = Valueless /\ slot[o] # Valueless =>
       \E p \in Obj : LosesAlternative(o, p) \/ TakesEmpty(o, p)]_vars

\* Result implements the sum values of Outcome: no operation, whether it ends
\* or throws, invents a payload or an alternative, or loses one when moves do
\* not throw (Result.hpp, the class comment and the defaulted assignments).
Promise == INSTANCE Outcome WITH
  Holder <- Obj, Content <- Chained, Spoilt <- Moved,
  Nothing <- Valueless, Absent <- None,
  held <- slot, failed <- thrown, safe <- NothrowMoves

ImplementsOutcome == Promise!OSpec

\* Result.hpp, has_error(): "Checks whether the Result contains an error".
HasErrorMeansError ==
  \A o \in Obj : Live(o) /\ HasError(o) => Holds(o, "error")

\* Result.hpp, operator=(Result &&): noexcept, so no exception may reach its end.
NoexceptHolds == ~terminated
=============================================================================
