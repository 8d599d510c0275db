---------------------------- MODULE ResultProofs ----------------------------
(***************************************************************************)
(* Proofs about Result: with payloads whose moves do not throw, a Result   *)
(* always represents a value or an error, and a failing operation changes  *)
(* neither which one nor what exists; whatever throws, a Result becomes    *)
(* empty only by a failed assignment of an alternative whose move may      *)
(* throw or as a copy of an empty one, and Result implements Outcome.      *)
(*                                                                         *)
(* Whole is inductive: the alternative a copy or a move is made from must  *)
(* exist for EmplacesCopy to speak of it, which only Whole itself says.    *)
(***************************************************************************)
EXTENDS Result, TLAPS

Whole == TypeOK /\ EitherValueOrError

\* The objects after a step: f has the type of slot, and every object of D
\* kept its lifetime and its alternative.
Typed(f) == f \in [Obj -> Storage \cup {None}]

SameShape(f, D) ==
  \A o \in D : /\ f[o] = None <=> slot[o] = None
               /\ Live(o) => f[o].alt = slot[o].alt

\* Replacing a payload by one that was moved from keeps the alternative.
LEMMA ReplacePayload ==
  ASSUME NEW s \in Storage, s # Valueless, NEW d \in {s.data, Moved}
  PROVE  /\ [s EXCEPT !.data = d] \in Storage
         /\ [s EXCEPT !.data = d].alt = s.alt
<1>1. CASE \E x \in Val \cup {Moved} : s = Value(x)
  <2>1. PICK x \in Val \cup {Moved} : s = Value(x)
    BY <1>1
  <2>2. s.data = x /\ s.alt = "value"
    BY <2>1 DEF Value
  <2>3. [s EXCEPT !.data = d] = Value(d)
    BY <2>1 DEF Value
  <2>4. d \in Val \cup {Moved}
    BY <2>2
  <2>. QED
    BY <2>2, <2>3, <2>4 DEF Storage, Value
<1>2. CASE \E e \in Err \cup {Moved} : s = Error(e)
  <2>1. PICK e \in Err \cup {Moved} : s = Error(e)
    BY <1>2
  <2>2. s.data = e /\ s.alt = "error"
    BY <2>1 DEF Error
  <2>3. [s EXCEPT !.data = d] = Error(d)
    BY <2>1 DEF Error
  <2>4. d \in Err \cup {Moved}
    BY <2>2
  <2>. QED
    BY <2>2, <2>3, <2>4 DEF Storage, Error
<1>. QED
  BY <1>1, <1>2 DEF Storage

\* Moving a payload out keeps the alternative of every object.
LEMMA MovedFromKeeps ==
  ASSUME TypeOK, NEW o \in Obj, Live(o)
  PROVE  Typed(MovedFrom(o)) /\ SameShape(MovedFrom(o), Obj)
<1>1. slot[o] \in Storage
  BY DEF TypeOK, Live
<1>2. CASE slot[o] = Valueless
  BY <1>2 DEF MovedFrom, Typed, SameShape, TypeOK
<1>3. CASE slot[o] # Valueless
  <2>1. MovedFrom(o) = [slot EXCEPT ![o].data = Moved]
    BY <1>3 DEF MovedFrom
  <2>2. /\ MovedFrom(o)[o].alt = slot[o].alt
        /\ MovedFrom(o)[o] \in Storage
        /\ \A p \in Obj : p # o => MovedFrom(o)[p] = slot[p]
    BY <1>1, <1>3, <2>1, ReplacePayload DEF TypeOK
  <2>3. MovedFrom(o) \in [Obj -> Storage \cup {None}]
    BY <2>1, <2>2 DEF TypeOK
  <2>. QED
    BY <2>2, <2>3, NoneAssumption DEF Typed, SameShape, Live
<1>. QED
  BY <1>2, <1>3

\* How an operation ends when it is not by terminating: the outcomes of every
\* action are of one of these forms.
Ended ==
  /\ Typed(slot') /\ UNCHANGED throwing
  /\ thrown' \in {"none", "payload", "access"}
  /\ terminated' \in BOOLEAN
  /\ NothrowMoves /\ EitherValueOrError =>
       /\ \A o \in Obj : slot'[o] # None => slot'[o].alt \in Alternative
       /\ thrown' # "none" => SameShape(slot', Obj)

LEMMA EndsWhole ==
  ASSUME TypeOK, NEW f, Typed(f), Ends(f),
         NothrowMoves /\ EitherValueOrError =>
           \A o \in Obj : f[o] # None => f[o].alt \in Alternative
  PROVE  Ended
BY DEF Ends, Keep, Ended, TypeOK

LEMMA FailsWhole ==
  ASSUME TypeOK, NEW f, NEW e \in {"payload", "access"}, Typed(f), Fails(e, f),
         SameShape(f, Obj)
  PROVE  Ended
BY DEF Fails, Keep, Ended, TypeOK, SameShape, EitherValueOrError, Live

\* Building, replacing and forwarding a storage s into o.
LEMMA PutWhole ==
  ASSUME TypeOK, NEW o \in Obj, NEW f, Typed(f), SameShape(f, Obj \ {o}),
         NEW s \in Storage \cup {None},
         NothrowMoves /\ EitherValueOrError =>
           (s # None => s.alt \in Alternative),
         Ends([f EXCEPT ![o] = s])
  PROVE  Ended
<1>. DEFINE g == [f EXCEPT ![o] = s]
<1>1. g[o] = s /\ \A p \in Obj : p # o => g[p] = f[p]
  BY DEF Typed
<1>2. Typed(g)
  BY DEF Typed
<1>3. ASSUME NothrowMoves, EitherValueOrError, NEW p \in Obj, g[p] # None
      PROVE  g[p].alt \in Alternative
  <2>1. CASE p = o
    BY <1>1, <1>3, <2>1
  <2>2. CASE p # o
    BY <1>1, <1>3, <2>2 DEF SameShape, EitherValueOrError, Live
  <2>. QED
    BY <2>1, <2>2
<1>. HIDE DEF g
<1>4. Ends(g)
  BY DEF g
<1>. QED
  BY <1>2, <1>3, <1>4, EndsWhole

LEMMA Unmoved == TypeOK => Typed(slot) /\ SameShape(slot, Obj)
BY DEF TypeOK, Typed, SameShape

\* The storage of a live object, and its alternative where Whole holds.
LEMMA LiveStorage ==
  ASSUME TypeOK, NEW o \in Obj, Live(o)
  PROVE  /\ slot[o] \in Storage
         /\ NothrowMoves /\ EitherValueOrError => slot[o].alt \in Alternative
BY DEF TypeOK, Live, EitherValueOrError

\* With moves that do not throw, no copy or move of an alternative built in
\* place throws: EmplaceThrows needs a move that may.
LEMMA NothrowMove ==
  ASSUME NothrowMoves, NEW a \in Alternative
  PROVE  /\ ~Throws("move", a)
         /\ Throws("copy", a) => ~EmplacesCopy(a)
BY DEF NothrowMoves, EmplacesCopy

LEMMA BuildWhole ==
  ASSUME TypeOK, NEW o \in Obj, NEW s \in Storage, NEW b,
         NothrowMoves /\ EitherValueOrError => s.alt \in Alternative,
         Build(o, s, b)
  PROVE  Ended
<1>1. CASE Ends([slot EXCEPT ![o] = s])
  BY <1>1, Unmoved, PutWhole DEF SameShape
<1>2. CASE Fails("payload", slot)
  BY <1>2, Unmoved, FailsWhole
<1>. QED
  BY <1>1, <1>2 DEF Build

\* The assignment of an equal alternative keeps it, even when it throws.
LEMMA AssignWhole ==
  ASSUME TypeOK, NEW o \in Obj, NEW p \in Obj, NEW m, Live(o),
         SameAlternative(o, p), AssignThrows(o, m)
  PROVE  Ended
<1>1. PICK d \in {slot[o].data, Moved} :
        Fails("payload", [slot EXCEPT ![o].data = d])
  BY DEF AssignThrows
<1>. DEFINE g == [slot EXCEPT ![o].data = d]
<1>2. slot[o] \in Storage
  BY LiveStorage
<1>3. CASE slot[o] = Valueless
  <2>1. Throws(m, slot[o].alt)
    BY DEF AssignThrows
  <2>2. slot[o].alt = "valueless"
    BY <1>3 DEF Valueless
  <2>. QED
    BY <2>1, <2>2 DEF Throws, TypeOK, Alternative
<1>4. CASE slot[o] # Valueless
  <2>1. g[o].alt = slot[o].alt /\ g[o] \in Storage
    BY <1>2, <1>4, ReplacePayload DEF TypeOK
  <2>2. \A q \in Obj : q # o => g[q] = slot[q]
    BY DEF TypeOK
  <2>3. Typed(g)
    BY <2>1, <2>2 DEF TypeOK, Typed
  <2>4. SameShape(g, Obj)
    BY <2>1, <2>2, <1>2, NoneAssumption DEF SameShape, Live
  <2>. HIDE DEF g
  <2>5. Fails("payload", g)
    BY <1>1 DEF g
  <2>. QED
    BY <2>3, <2>4, <2>5, FailsWhole
<1>. QED
  BY <1>3, <1>4

\* A failed emplace() leaves no alternative: impossible under NothrowMoves.
LEMMA EmplaceWhole ==
  ASSUME TypeOK, NEW o \in Obj, Live(o), EmplaceThrows(o),
         ~(NothrowMoves /\ EitherValueOrError)
  PROVE  Ended
BY DEF EmplaceThrows, Fails, Keep, TypeOK, Storage, Ended, Typed

-----------------------------------------------------------------------------
(* The actions.                                                            *)

LEMMA CopyAssignWhole ==
  ASSUME TypeOK, NEW o \in Obj, NEW p \in Obj, CopyAssign(o, p)
  PROVE  Ended
<1>. USE DEF CopyAssign
<1>1. CASE Ends([slot EXCEPT ![o] = slot[p]])
  BY <1>1, LiveStorage, Unmoved, PutWhole DEF SameShape
<1>2. CASE SameAlternative(o, p) /\ AssignThrows(o, "copyAssign")
  BY <1>2, AssignWhole
<1>3. CASE Throws("copy", slot[p].alt) /\ EmplacesCopy(slot[p].alt)
             /\ EmplaceThrows(o)
  BY <1>3, LiveStorage, NothrowMove, EmplaceWhole
<1>4. CASE Fails("payload", slot)
  BY <1>4, Unmoved, FailsWhole
<1>. QED
  BY <1>1, <1>2, <1>3, <1>4

LEMMA MoveAssignWhole ==
  ASSUME TypeOK, NEW o \in Obj, NEW p \in Obj, MoveAssign(o, p)
  PROVE  Ended \/ Terminate
<1>. USE DEF MoveAssign
<1>1. CASE Ends([MovedFrom(p) EXCEPT ![o] = slot[p]])
  BY <1>1, LiveStorage, MovedFromKeeps, PutWhole DEF SameShape
<1>2. CASE SameAlternative(o, p) /\ AssignThrows(o, "moveAssign")
  BY <1>2, AssignWhole
<1>3. CASE Throws("move", slot[p].alt) /\ EmplaceThrows(o)
  BY <1>3, LiveStorage, NothrowMove, EmplaceWhole
<1>4. CASE Terminate
  BY <1>4
<1>5. CASE Ends(MovedFrom(o))
  BY <1>5, MovedFromKeeps, EndsWhole
  DEF EitherValueOrError, SameShape, Live
<1>. QED
  BY <1>1, <1>2, <1>3, <1>4, <1>5

\* map() and and_then(), of an lvalue or an rvalue.
LEMMA ComposeWhole ==
  ASSUME TypeOK, NEW d \in Obj, NEW o \in Obj, NEW R \in SUBSET Chained,
         NEW rvalue \in BOOLEAN, Compose(d, o, R, rvalue)
  PROVE  Ended
<1>. USE DEF Compose
<1>1. Live(o) /\ ~Live(d) /\ d # o
  OBVIOUS
<1>2. \A f \in {slot, MovedFrom(o)} : Typed(f) /\ SameShape(f, Obj)
  BY <1>1, Unmoved, MovedFromKeeps
<1>3. CASE HasValue(o)
  <2>1. PICK f \in {slot, MovedFrom(o)} :
          \/ \E r \in R : Ends([f EXCEPT ![d] = r])
          \/ Fails("payload", f)
    BY <1>3 DEF Invoke
  <2>2. CASE \E r \in R : Ends([f EXCEPT ![d] = r])
    <3>1. PICK r \in R : Ends([f EXCEPT ![d] = r])
      BY <2>2
    <3>2. r \in Storage /\ r.alt \in Alternative
      BY DEF Chained, Mapped, Storage, Value, Error, Alternative
    <3>. QED
      BY <3>1, <3>2, <1>2, PutWhole DEF SameShape
  <2>3. CASE Fails("payload", f)
    BY <2>3, <1>2, FailsWhole
  <2>. QED
    BY <2>1, <2>2, <2>3
<1>4. CASE ~HasValue(o)
  <2>1. CASE Fails("access", slot)
    BY <2>1, Unmoved, FailsWhole
  <2>2. CASE Fails("payload", slot)
    BY <2>2, Unmoved, FailsWhole
  <2>3. CASE Ends([(IF rvalue THEN MovedFrom(o) ELSE slot)
                     EXCEPT ![d] = slot[o]])
    <3>. DEFINE f == IF rvalue THEN MovedFrom(o) ELSE slot
    <3>1. Typed(f) /\ SameShape(f, Obj)
      BY <1>2
    <3>2. Ends([f EXCEPT ![d] = slot[o]])
      BY <2>3
    <3>. HIDE DEF f
    <3>. QED
      BY <3>1, <3>2, <1>1, LiveStorage, PutWhole DEF SameShape
  <2>. QED
    BY <1>4, <2>1, <2>2, <2>3 DEF Forward
<1>. QED
  BY <1>3, <1>4

\* The operations on one object.
LEMMA UnaryWhole ==
  ASSUME TypeOK, NEW o \in Obj
  PROVE  /\ \A x \in Val : Success(o, x) => Ended
         /\ \A e \in Err : Failure(o, e) => Ended
         /\ Destroy(o) => Ended
         /\ \A a \in Alternative : Access(o, a) => Ended
         /\ ValueOr(o) => Ended
         /\ ValueOrMove(o) => Ended
<1>1. ASSUME NEW x \in Val, Success(o, x)
      PROVE  Ended
  BY <1>1, BuildWhole DEF Success, Storage, Value, Alternative
<1>2. ASSUME NEW e \in Err, Failure(o, e)
      PROVE  Ended
  BY <1>2, BuildWhole DEF Failure, Storage, Error, Alternative
<1>3. ASSUME Destroy(o)
      PROVE  Ended
  BY <1>3, Unmoved, PutWhole DEF Destroy, SameShape
<1>4. ASSUME Ends(slot)
      PROVE  Ended
  BY <1>4, Unmoved, EndsWhole DEF EitherValueOrError, Live
<1>5. ASSUME NEW e \in {"payload", "access"}, Fails(e, slot)
      PROVE  Ended
  BY <1>5, Unmoved, FailsWhole
<1>6. ASSUME Live(o), Ends(MovedFrom(o))
      PROVE  Ended
  BY <1>6, MovedFromKeeps, EndsWhole DEF EitherValueOrError, SameShape, Live
<1>. QED
  BY <1>1, <1>2, <1>3, <1>4, <1>5, <1>6 DEF Access, ValueOr, ValueOrMove

LEMMA MoveConstructWhole ==
  ASSUME TypeOK, NEW o \in Obj, NEW p \in Obj, MoveConstruct(o, p)
  PROVE  Ended
<1>. USE DEF MoveConstruct
<1>1. CASE Ends([MovedFrom(p) EXCEPT ![o] = slot[p]])
  BY <1>1, LiveStorage, MovedFromKeeps, PutWhole DEF SameShape
<1>2. CASE Fails("payload", slot)
  BY <1>2, Unmoved, FailsWhole
<1>. QED
  BY <1>1, <1>2

LEMMA NextEnded ==
  ASSUME TypeOK, Next
  PROVE  Ended \/ Terminate
<1>1. PICK o \in Obj : Step(o)
  BY DEF Next
<1>2. CASE \/ \E x \in Val : Success(o, x)
           \/ \E e \in Err : Failure(o, e)
           \/ Destroy(o)
           \/ \E a \in Alternative : Access(o, a)
           \/ ValueOr(o) \/ ValueOrMove(o)
  BY <1>2, UnaryWhole
<1>3. ASSUME NEW p \in Obj, CopyConstruct(o, p)
      PROVE  Ended
  BY <1>3, LiveStorage, BuildWhole DEF CopyConstruct
<1>4. ASSUME NEW p \in Obj,
             Map(o, p) \/ MapMove(o, p) \/ AndThen(o, p) \/ AndThenMove(o, p)
      PROVE  Ended
  <2>1. Mapped \in SUBSET Chained /\ Chained \in SUBSET Chained
    BY DEF Chained
  <2>. QED
    BY <1>4, <2>1, ComposeWhole DEF Map, MapMove, AndThen, AndThenMove
<1>. QED
  BY <1>1, <1>2, <1>3, <1>4, MoveConstructWhole, CopyAssignWhole,
     MoveAssignWhole DEF Step

-----------------------------------------------------------------------------
LEMMA WholeInit == Init => Whole
BY DEF Init, Whole, TypeOK, EitherValueOrError, Live

LEMMA WholeStep == Whole /\ [Next]_vars => Whole'
<1>. SUFFICES ASSUME Whole, [Next]_vars
              PROVE  Whole'
  OBVIOUS
<1>1. CASE UNCHANGED vars
  BY <1>1 DEF vars, Whole, TypeOK, EitherValueOrError, Live, NothrowMoves, Throws
<1>2. CASE Ended
  BY <1>2 DEF Ended, Typed, Whole, TypeOK, EitherValueOrError, Live,
     NothrowMoves, Throws
<1>3. CASE Terminate
  BY <1>3 DEF Terminate, Whole, TypeOK, EitherValueOrError, Live, NothrowMoves, Throws
<1>. QED
  BY <1>1, <1>2, <1>3, NextEnded DEF Whole

\* With payloads whose moves do not throw, every live Result holds a value or
\* an error (Result.hpp, the class comment and the defaulted assignments).
THEOREM AlwaysValueOrError == Spec => []EitherValueOrError
<1>1. Whole => EitherValueOrError
  BY DEF Whole
<1>. QED
  BY WholeInit, WholeStep, <1>1, PTL DEF Spec

\* With such payloads an operation that fails begins and ends no lifetime and
\* changes no Result from a value to an error or back.
THEOREM FailuresKeepAlternatives == Spec => FailureKeepsAlternatives
<1>1. ASSUME Whole, [Next]_vars
      PROVE  [NothrowMoves /\ thrown' # "none" =>
                \A o \in Obj :
                  /\ slot'[o] = None <=> slot[o] = None
                  /\ Live(o) => slot'[o].alt = slot[o].alt]_vars
  BY <1>1, NextEnded DEF Whole, Ended, SameShape, Terminate, vars
<1>. QED
  BY WholeInit, WholeStep, <1>1, PTL DEF Spec, FailureKeepsAlternatives

\* The variables keep their types, whatever payload operations throw.
THEOREM TypeCorrect == Spec => []TypeOK
<1>1. Whole => TypeOK
  BY DEF Whole
<1>. QED
  BY WholeInit, WholeStep, <1>1, PTL DEF Spec
-----------------------------------------------------------------------------
(* How a Result becomes empty.                                             *)

Emptied(o) == slot'[o] = Valueless /\ slot[o] # Valueless
Caused(o) == \E p \in Obj : LosesAlternative(o, p) \/ TakesEmpty(o, p)

\* Only an empty Result has the alternative of an empty Result.
LEMMA ValuelessByAlternative ==
  ASSUME NEW s \in Storage, s.alt = "valueless"
  PROVE  s = Valueless
BY DEF Storage, Value, Error, Valueless

LEMMA BuiltNotValueless ==
  ASSUME NEW x
  PROVE  Value(x) # Valueless /\ Error(x) # Valueless
<1>1. Value(x).alt = "value" /\ Error(x).alt = "error"
  BY DEF Value, Error
<1>2. Valueless.alt = "valueless"
  BY DEF Valueless
<1>. QED
  BY <1>1, <1>2

\* An object that keeps its lifetime and its alternative does not become empty.
LEMMA ShapeNotValueless ==
  ASSUME TypeOK, NEW f, SameShape(f, Obj), NEW o \in Obj, f[o] = Valueless
  PROVE  slot[o] = Valueless
<1>1. Valueless # None /\ Valueless.alt = "valueless"
  BY NoneAssumption DEF Storage, Valueless
<1>2. slot[o] \in Storage
  BY <1>1 DEF TypeOK, SameShape
<1>3. slot[o].alt = "valueless"
  BY <1>1 DEF SameShape, Live
<1>. QED
  BY <1>2, <1>3, ValuelessByAlternative

LEMMA KeepsFull ==
  ASSUME TypeOK, NEW f, SameShape(f, Obj), slot' = f, NEW q \in Obj
  PROVE  ~Emptied(q)
BY ShapeNotValueless DEF Emptied

Puts(f, o, s) == slot' = [f EXCEPT ![o] = s]

\* Where a storage is built, replaced or forwarded, only its place may become
\* empty, and only if the storage is.
LEMMA PutFull ==
  ASSUME TypeOK, NEW o \in Obj, NEW f, Typed(f), SameShape(f, Obj), NEW s,
         Puts(f, o, s), NEW q \in Obj, Emptied(q)
  PROVE  q = o /\ s = Valueless
<1>1. slot'[o] = s /\ \A p \in Obj : p # o => slot'[p] = f[p]
  BY DEF Typed, Puts
<1>. QED
  BY <1>1, ShapeNotValueless DEF Emptied

\* The assignment of an equal alternative empties nothing.
LEMMA AssignFull ==
  ASSUME TypeOK, NEW o \in Obj, NEW m, Live(o), AssignThrows(o, m), NEW q \in Obj
  PROVE  ~Emptied(q)
<1>1. PICK d \in {slot[o].data, Moved} :
        slot' = [slot EXCEPT ![o].data = d]
  BY DEF AssignThrows, Fails
<1>2. slot[o].alt \in Alternative
  BY DEF AssignThrows, Throws, TypeOK
<1>3. slot[o] \in Storage /\ slot[o] # Valueless
  BY <1>2, LiveStorage DEF Valueless, Alternative
<1>4. [slot[o] EXCEPT !.data = d].alt # "valueless"
  BY <1>2, <1>3, ReplacePayload DEF Alternative
<1>5. slot'[o] = [slot[o] EXCEPT !.data = d]
      /\ \A p \in Obj : p # o => slot'[p] = slot[p]
  BY <1>1 DEF TypeOK
<1>. QED
  BY <1>4, <1>5 DEF Emptied, Valueless

\* A failed emplace() empties its target, which was to get another alternative
\* whose move may throw.
LEMMA EmplaceCaused ==
  ASSUME TypeOK, NEW o \in Obj, NEW p \in Obj, Live(o), Live(p),
         EmplaceThrows(o), CopyAssign(o, p) \/ MoveAssign(o, p),
         ~SameAlternative(o, p), Throws("move", slot[p].alt),
         NEW q \in Obj, Emptied(q)
  PROVE  Caused(q)
<1>1. q = o /\ slot[o] # Valueless /\ thrown' = "payload"
  <2>1. SameShape(slot, Obj) /\ Typed(slot)
    BY Unmoved
  <2>2. Puts(slot, o, Valueless) /\ thrown' = "payload"
    BY DEF EmplaceThrows, Fails, Puts
  <2>. QED
    BY <2>1, <2>2, PutFull DEF Emptied
<1>2. slot[p].alt \in Alternative
  BY DEF Throws, TypeOK
<1>3. slot[p].alt # slot[o].alt
  <2>1. slot[p] # Valueless
    BY <1>2 DEF Valueless, Alternative
  <2>. QED
    BY <2>1 DEF SameAlternative
<1>4. LosesAlternative(o, p)
  BY <1>1, <1>3 DEF LosesAlternative
<1>. QED
  BY <1>1, <1>4 DEF Caused

\* A storage is built from or assigned that of p.
LEMMA TakeCaused ==
  ASSUME TypeOK, NEW o \in Obj, NEW p \in Obj, Live(p),
         \/ CopyConstruct(o, p) \/ MoveConstruct(o, p)
         \/ CopyAssign(o, p) \/ MoveAssign(o, p),
         NEW f \in {slot, MovedFrom(p)}, Ends([f EXCEPT ![o] = slot[p]]),
         NEW q \in Obj, Emptied(q)
  PROVE  Caused(q)
<1>1. Typed(f) /\ SameShape(f, Obj)
  BY Unmoved, MovedFromKeeps
<1>2. q = o /\ slot[p] = Valueless /\ thrown' = "none"
  <2>1. Puts(f, o, slot[p]) /\ thrown' = "none"
    BY DEF Ends, Puts
  <2>. QED
    BY <1>1, <2>1, PutFull
<1>3. TakesEmpty(o, p)
  BY <1>2 DEF TakesEmpty
<1>. QED
  BY <1>2, <1>3 DEF Caused

\* An operation that leaves every object what it was empties none.
LEMMA StaysFull ==
  ASSUME TypeOK, NEW o \in Obj, Live(o), NEW q \in Obj,
         slot' = slot \/ slot' = MovedFrom(o)
  PROVE  ~Emptied(q)
BY Unmoved, MovedFromKeeps, KeepsFull

LEMMA BinaryCaused ==
  ASSUME TypeOK, NEW o \in Obj, NEW p \in Obj,
         \/ CopyConstruct(o, p) \/ MoveConstruct(o, p)
         \/ CopyAssign(o, p) \/ MoveAssign(o, p),
         NEW q \in Obj, Emptied(q)
  PROVE  Caused(q)
<1>1. Live(p)
  BY DEF CopyConstruct, MoveConstruct, CopyAssign, MoveAssign
<1>2. CASE \E f \in {slot, MovedFrom(p)} : Ends([f EXCEPT ![o] = slot[p]])
  BY <1>1, <1>2, TakeCaused
<1>3. ~(slot' = slot \/ slot' = MovedFrom(p))
  BY <1>1, StaysFull
<1>4. CASE CopyConstruct(o, p) \/ MoveConstruct(o, p)
  BY <1>2, <1>3, <1>4 DEF CopyConstruct, MoveConstruct, Build, Fails
<1>5. CASE CopyAssign(o, p)
  <2>1. ~AssignThrows(o, "copyAssign")
    BY <1>5, AssignFull DEF CopyAssign
  <2>2. ASSUME ~SameAlternative(o, p), Throws("copy", slot[p].alt),
               EmplacesCopy(slot[p].alt), EmplaceThrows(o)
        PROVE  Caused(q)
    BY <1>5, <2>2, EmplaceCaused DEF CopyAssign, EmplacesCopy
  <2>. QED
    BY <1>2, <1>3, <1>5, <2>1, <2>2 DEF CopyAssign, Fails
<1>6. CASE MoveAssign(o, p)
  <2>1. ~AssignThrows(o, "moveAssign")
    BY <1>6, AssignFull DEF MoveAssign
  <2>2. ASSUME ~SameAlternative(o, p), Throws("move", slot[p].alt),
               EmplaceThrows(o)
        PROVE  Caused(q)
    BY <1>6, <2>2, EmplaceCaused DEF MoveAssign
  <2>3. ~(o = p /\ Ends(MovedFrom(o))) /\ ~Terminate
    BY <1>3 DEF Ends, Terminate
  <2>. QED
    BY <1>2, <1>6, <2>1, <2>2, <2>3 DEF MoveAssign
<1>. QED
  BY <1>4, <1>5, <1>6

\* map() and and_then() empty nothing and make nothing empty.
LEMMA ComposeFull ==
  ASSUME TypeOK, NEW d \in Obj, NEW o \in Obj, NEW R \in SUBSET Chained,
         NEW rvalue \in BOOLEAN, Compose(d, o, R, rvalue), NEW q \in Obj
  PROVE  ~Emptied(q)
<1>1. Live(o)
  BY DEF Compose
<1>2. \A f \in {slot, MovedFrom(o)} : Typed(f) /\ SameShape(f, Obj)
  BY <1>1, Unmoved, MovedFromKeeps
<1>3. ASSUME slot' \in {slot, MovedFrom(o)}
      PROVE  ~Emptied(q)
  BY <1>1, <1>3, StaysFull
<1>4. ASSUME NEW f \in {slot, MovedFrom(o)}, NEW s, s # Valueless,
             Puts(f, d, s)
      PROVE  ~Emptied(q)
  BY <1>2, <1>4, PutFull
<1>5. CASE HasValue(o)
  <2>1. \A r \in R : r # Valueless
    BY BuiltNotValueless DEF Chained, Mapped
  <2>. QED
    BY <1>3, <1>4, <1>5, <2>1 DEF Compose, Invoke, Ends, Fails, Puts
<1>6. CASE ~HasValue(o)
  <2>1. Holds(o, "error") => slot[o] # Valueless
    BY DEF Holds, Valueless
  <2>. QED
    BY <1>3, <1>4, <1>6, <2>1 DEF Compose, Forward, Ends, Fails, Puts
<1>. QED
  BY <1>5, <1>6

LEMMA UnaryFull ==
  ASSUME TypeOK, NEW o \in Obj, NEW q \in Obj,
         \/ \E x \in Val : Success(o, x)
         \/ \E e \in Err : Failure(o, e)
         \/ Destroy(o)
         \/ \E a \in Alternative : Access(o, a)
         \/ ValueOr(o) \/ ValueOrMove(o)
  PROVE  ~Emptied(q)
<1>1. ASSUME slot' = slot
      PROVE  ~Emptied(q)
  BY <1>1 DEF Emptied
<1>2. ASSUME Live(o), slot' = MovedFrom(o)
      PROVE  ~Emptied(q)
  BY <1>2, StaysFull
<1>3. ASSUME NEW s, s # Valueless, Puts(slot, o, s)
      PROVE  ~Emptied(q)
  BY <1>3, Unmoved, PutFull
<1>4. None # Valueless
  BY NoneAssumption DEF Storage
<1>5. CASE Destroy(o)
  BY <1>3, <1>4, <1>5 DEF Destroy, Ends, Puts
<1>6. CASE (\E x \in Val : Success(o, x)) \/ (\E e \in Err : Failure(o, e))
  BY <1>1, <1>3, <1>6, BuiltNotValueless DEF Success, Failure, Build,
     Ends, Fails, Puts
<1>7. CASE (\E a \in Alternative : Access(o, a)) \/ ValueOr(o) \/ ValueOrMove(o)
  BY <1>1, <1>2, <1>7 DEF Access, ValueOr, ValueOrMove, Ends, Fails
<1>. QED
  BY <1>5, <1>6, <1>7

LEMMA NextCaused ==
  ASSUME TypeOK, Next, NEW q \in Obj, Emptied(q)
  PROVE  Caused(q)
<1>1. PICK o \in Obj : Step(o)
  BY DEF Next
<1>2. ASSUME NEW p \in Obj,
             Map(o, p) \/ MapMove(o, p) \/ AndThen(o, p) \/ AndThenMove(o, p)
      PROVE  FALSE
  <2>1. Mapped \in SUBSET Chained /\ Chained \in SUBSET Chained
    BY DEF Chained
  <2>. QED
    BY <1>2, <2>1, ComposeFull DEF Map, MapMove, AndThen, AndThenMove
<1>. QED
  BY <1>1, <1>2, UnaryFull, BinaryCaused DEF Step

\* Whatever payload operations throw, a Result becomes empty only as the target
\* of a failed assignment of the other alternative, whose move may throw, or as
\* a copy of an empty Result: map(), and_then() and value_or() make none empty.
THEOREM ValuelessResultsHaveCause == Spec => ValuelessHasCause
<1>1. ASSUME Whole, [Next]_vars
      PROVE  [\A o \in Obj : slot'[o] = Valueless /\ slot[o] # Valueless =>
                \E p \in Obj : LosesAlternative(o, p) \/ TakesEmpty(o, p)]_vars
  BY <1>1, NextCaused DEF Whole, Emptied, Caused
<1>. QED
  BY WholeInit, WholeStep, <1>1, PTL DEF Spec, ValuelessHasCause

-----------------------------------------------------------------------------
(* What the two disagreements need: payloads whose moves throw.            *)

\* With payloads whose moves do not throw, has_error() answers what its comment
\* says: a Result without a value holds an error.
THEOREM HasErrorIsRight == Spec => [](NothrowMoves => HasErrorMeansError)
<1>1. Whole => (NothrowMoves => HasErrorMeansError)
  BY DEF Whole, EitherValueOrError, HasErrorMeansError, HasError, HasValue,
     Holds, Alternative, Live
<1>. QED
  BY WholeInit, WholeStep, <1>1, PTL DEF Spec

\* The noexcept of the move assignment is right for payloads that throw when
\* they are moved only if they throw when they are move-assigned.
SpecificationFits == NoexceptMoveAssign => NothrowMoves

LEMMA TerminationNeedsThrow ==
  ASSUME TypeOK, NEW o \in Obj, NEW p \in Obj, MoveAssign(o, p), SpecificationFits
  PROVE  UNCHANGED terminated
<1>1. ASSUME Throws("move", slot[p].alt), NoexceptMoveAssign
      PROVE  FALSE
  <2>1. slot[p].alt \in Alternative
    BY <1>1 DEF Throws, TypeOK
  <2>. QED
    BY <1>1, <2>1 DEF SpecificationFits, NothrowMoves
<1>. QED
  BY <1>1 DEF MoveAssign, AssignThrows, EmplaceThrows, Ends, Fails, Keep

LEMMA OthersDoNotTerminate ==
  ASSUME NEW o \in Obj, Step(o), \A p \in Obj : ~MoveAssign(o, p)
  PROVE  UNCHANGED terminated
<1>. USE DEF Ends, Fails, Keep
<1>1. ASSUME NEW d \in Obj, NEW p \in Obj, NEW R, NEW rvalue,
             Compose(d, p, R, rvalue)
      PROVE  UNCHANGED terminated
  BY <1>1 DEF Compose, Invoke, Forward
<1>2. ASSUME NEW p \in Obj,
             Map(o, p) \/ MapMove(o, p) \/ AndThen(o, p) \/ AndThenMove(o, p)
      PROVE  UNCHANGED terminated
  BY <1>1, <1>2 DEF Map, MapMove, AndThen, AndThenMove
<1>3. ASSUME NEW p \in Obj,
             CopyConstruct(o, p) \/ MoveConstruct(o, p) \/ CopyAssign(o, p)
      PROVE  UNCHANGED terminated
  BY <1>3 DEF CopyConstruct, MoveConstruct, CopyAssign, Build, AssignThrows,
     EmplaceThrows
<1>. QED
  BY <1>2, <1>3 DEF Step, Success, Failure, Build, Destroy, Access, ValueOr,
     ValueOrMove

\* For such payloads no exception reaches the end of a noexcept assignment,
\* whatever else throws (Result.hpp, operator=(Result &&)).
THEOREM NoexceptIsRight == Spec => [](SpecificationFits => NoexceptHolds)
<1>1. Init => (SpecificationFits => NoexceptHolds)
  BY DEF Init, NoexceptHolds
<1>2. ASSUME Whole, SpecificationFits => NoexceptHolds, [Next]_vars
      PROVE  (SpecificationFits => NoexceptHolds)'
  <2>1. CASE UNCHANGED vars
    BY <1>2, <2>1 DEF vars, SpecificationFits, NoexceptHolds, NothrowMoves,
       NoexceptMoveAssign, Throws
  <2>2. CASE Next
    <3>1. throwing' = throwing
      BY <1>2, <2>2, NextEnded DEF Whole, Ended, Terminate
    <3>2. SpecificationFits' <=> SpecificationFits
      BY <3>1 DEF SpecificationFits, NothrowMoves, NoexceptMoveAssign, Throws
    <3>3. SpecificationFits => UNCHANGED terminated
      BY <1>2, <2>2, TerminationNeedsThrow, OthersDoNotTerminate DEF Whole, Next
    <3>. QED
      BY <1>2, <3>2, <3>3 DEF NoexceptHolds
  <2>. QED
    BY <1>2, <2>1, <2>2
<1>. QED
  BY <1>1, <1>2, WholeInit, WholeStep, PTL DEF Spec
-----------------------------------------------------------------------------
(* Result implements Outcome.                                              *)

LEMMA SafetyKept == Keep => UNCHANGED NothrowMoves
<1>. SUFFICES ASSUME throwing' = throwing PROVE NothrowMoves' = NothrowMoves
  BY DEF Keep
<1>1. NothrowMoves' <=> NothrowMoves
  BY DEF NothrowMoves, Throws
<1>2. NothrowMoves \in BOOLEAN /\ NothrowMoves' \in BOOLEAN
  BY DEF NothrowMoves
<1>. QED
  BY <1>1, <1>2

LEMMA MovingSpoils ==
  ASSUME NEW o \in Obj
  PROVE  /\ slot \in Promise!Read(o)
         /\ Live(o) => MovedFrom(o) \in Promise!Read(o)
BY DEF Promise!Read, Promise!Spoiling, MovedFrom, Live

\* The ways operations end, as steps of Outcome.
LEMMA MakePromised ==
  ASSUME NEW o \in Obj, ~Live(o), NEW p \in Obj, NEW f \in Promise!Read(p),
         NEW c \in Chained, Ends([f EXCEPT ![o] = c])
  PROVE  Promise!ONext
<1>1. Promise!Done([f EXCEPT ![o] = c])
  BY SafetyKept DEF Ends, Promise!Done
<1>2. Promise!Make(o, p, c)
  BY <1>1 DEF Promise!Make, Live
<1>. QED
  BY <1>2 DEF Promise!ONext

LEMMA ObtainPromised ==
  ASSUME NEW o \in Obj, NEW p \in Obj, Live(p), NEW f \in Promise!Read(p),
         Ends([f EXCEPT ![o] = slot[p]])
  PROVE  Promise!ONext
<1>1. Promise!Done([f EXCEPT ![o] = slot[p]])
  BY SafetyKept DEF Ends, Promise!Done
<1>2. Promise!Obtain(o, p)
  BY <1>1 DEF Promise!Obtain, Live
<1>. QED
  BY <1>2 DEF Promise!ONext

LEMMA ObservePromised ==
  ASSUME NEW o \in Obj, NEW f \in Promise!Read(o), Ends(f)
  PROVE  Promise!ONext
<1>1. Promise!Done(f)
  BY SafetyKept DEF Ends, Promise!Done
<1>2. Promise!Observe(o)
  BY <1>1 DEF Promise!Observe
<1>. QED
  BY <1>2 DEF Promise!ONext

LEMMA FailPromised ==
  ASSUME NEW o \in Obj, NEW e \in {"payload", "access"},
         NEW f \in Promise!Read(o), Fails(e, f)
  PROVE  Promise!ONext
<1>1. Promise!Fail(o)
  BY SafetyKept DEF Fails, Promise!Fail
<1>. QED
  BY <1>1 DEF Promise!ONext

LEMMA LosePromised ==
  ASSUME NEW o \in Obj, Live(o), ~NothrowMoves, EmplaceThrows(o)
  PROVE  Promise!ONext
<1>1. Promise!Lose(o)
  BY SafetyKept DEF EmplaceThrows, Fails, Promise!Lose, Live
<1>. QED
  BY <1>1 DEF Promise!ONext

\* An alternative whose assignment throws is left as it was, or spoilt.
LEMMA AssignPromised ==
  ASSUME TypeOK, NEW o \in Obj, NEW m, Live(o), AssignThrows(o, m)
  PROVE  Promise!ONext
<1>1. PICK d \in {slot[o].data, Moved} :
        Fails("payload", [slot EXCEPT ![o].data = d])
  BY DEF AssignThrows
<1>2. slot[o] \in Storage /\ slot[o] # Valueless /\ slot[o] # None
  <2>1. slot[o] \in Storage
    BY LiveStorage
  <2>2. slot[o].alt \in Alternative
    BY DEF AssignThrows, Throws, TypeOK
  <2>3. Valueless.alt \notin Alternative
    BY DEF Valueless, Alternative
  <2>. QED
    BY <2>1, <2>2, <2>3 DEF Live
<1>3. [slot EXCEPT ![o].data = Moved] \in Promise!Read(o)
  BY <1>2 DEF Promise!Read, Promise!Spoiling
<1>4. [slot EXCEPT ![o].data = slot[o].data] = slot
  <2>1. [slot[o] EXCEPT !.data = slot[o].data] = slot[o]
    BY <1>2 DEF Storage, Value, Error
  <2>. QED
    BY <2>1 DEF TypeOK
<1>5. [slot EXCEPT ![o].data = d] \in Promise!Read(o)
  <2>1. CASE d = Moved
    BY <1>3, <2>1
  <2>2. CASE d = slot[o].data
    BY <1>4, <2>2, MovingSpoils
  <2>. QED
    BY <2>1, <2>2
<1>. QED
  BY <1>1, <1>5, FailPromised

\* An emplace() that throws needs a move that may.
LEMMA EmplacePromised ==
  ASSUME TypeOK, NEW o \in Obj, NEW a, Live(o), EmplaceThrows(o),
         Throws("move", a) \/ (Throws("copy", a) /\ EmplacesCopy(a))
  PROVE  Promise!ONext
<1>1. a \in Alternative
  BY DEF Throws, TypeOK
<1>2. ~NothrowMoves
  BY <1>1 DEF NothrowMoves, EmplacesCopy
<1>. QED
  BY <1>2, LosePromised

LEMMA ComposePromised ==
  ASSUME NEW d \in Obj, NEW o \in Obj, NEW R \in SUBSET Chained,
         NEW rvalue \in BOOLEAN, Compose(d, o, R, rvalue)
  PROVE  Promise!ONext
<1>. USE DEF Compose
<1>1. \A f \in {slot, MovedFrom(o)} : f \in Promise!Read(o)
  BY MovingSpoils
<1>2. CASE HasValue(o)
  <2>1. PICK f \in {slot, MovedFrom(o)} :
          \/ \E r \in R : Ends([f EXCEPT ![d] = r])
          \/ Fails("payload", f)
    BY <1>2 DEF Invoke
  <2>. QED
    BY <1>1, <2>1, MakePromised, FailPromised
<1>3. CASE ~HasValue(o)
  <2>1. PICK f \in {slot, MovedFrom(o)} :
          \/ \E e \in {"payload", "access"} : Fails(e, slot)
          \/ Ends([f EXCEPT ![d] = slot[o]])
    BY <1>3 DEF Forward
  <2>. QED
    BY <1>1, <2>1, ObtainPromised, FailPromised
<1>. QED
  BY <1>2, <1>3

LEMMA UnaryPromised ==
  ASSUME TypeOK, NEW o \in Obj
  PROVE  /\ \A x \in Val : Success(o, x) => Promise!ONext
         /\ \A e \in Err : Failure(o, e) => Promise!ONext
         /\ Destroy(o) => Promise!ONext
         /\ \A a \in Alternative : Access(o, a) => Promise!ONext
         /\ ValueOr(o) => Promise!ONext
         /\ ValueOrMove(o) => Promise!ONext
<1>1. ASSUME NEW c \in Chained, NEW b, ~Live(o), Build(o, c, b)
      PROVE  Promise!ONext
  BY <1>1, MovingSpoils, MakePromised, FailPromised DEF Build
<1>2. ASSUME NEW x \in Val, Success(o, x)
      PROVE  Promise!ONext
  BY <1>1, <1>2 DEF Success, Chained, Mapped
<1>3. ASSUME NEW e \in Err, Failure(o, e)
      PROVE  Promise!ONext
  BY <1>1, <1>3 DEF Failure, Chained
<1>4. ASSUME Destroy(o)
      PROVE  Promise!ONext
  <2>1. Promise!End(o)
    BY <1>4, SafetyKept DEF Destroy, Ends, Promise!End, Promise!Done
  <2>. QED
    BY <2>1 DEF Promise!ONext
<1>5. ASSUME \/ Ends(slot)
             \/ Live(o) /\ Ends(MovedFrom(o))
             \/ \E e \in {"payload", "access"} : Fails(e, slot)
      PROVE  Promise!ONext
  BY <1>5, MovingSpoils, ObservePromised, FailPromised
<1>6. ASSUME NEW a \in Alternative, Access(o, a)
      PROVE  Promise!ONext
  BY <1>5, <1>6 DEF Access
<1>. QED
  BY <1>2, <1>3, <1>4, <1>5, <1>6 DEF ValueOr, ValueOrMove

LEMMA BinaryPromised ==
  ASSUME TypeOK, NEW o \in Obj, NEW p \in Obj
  PROVE  /\ CopyConstruct(o, p) => Promise!ONext
         /\ MoveConstruct(o, p) => Promise!ONext
         /\ CopyAssign(o, p) => Promise!ONext
         /\ MoveAssign(o, p) => Promise!ONext \/ Terminate
<1>1. ASSUME Live(p), NEW f \in {slot, MovedFrom(p)},
             Ends([f EXCEPT ![o] = slot[p]])
      PROVE  Promise!ONext
  BY <1>1, MovingSpoils, ObtainPromised
<1>2. ASSUME Fails("payload", slot)
      PROVE  Promise!ONext
  BY <1>2, MovingSpoils, FailPromised
<1>3. ASSUME CopyConstruct(o, p)
      PROVE  Promise!ONext
  BY <1>1, <1>2, <1>3 DEF CopyConstruct, Build
<1>4. ASSUME MoveConstruct(o, p)
      PROVE  Promise!ONext
  BY <1>1, <1>2, <1>4 DEF MoveConstruct
<1>5. ASSUME CopyAssign(o, p)
      PROVE  Promise!ONext
  BY <1>1, <1>2, <1>5, AssignPromised, EmplacePromised DEF CopyAssign
<1>6. ASSUME MoveAssign(o, p)
      PROVE  Promise!ONext \/ Terminate
  <2>1. CASE o = p /\ Ends(MovedFrom(o))
    BY <1>6, <2>1, MovingSpoils, ObservePromised DEF MoveAssign
  <2>2. CASE Throws("move", slot[p].alt) /\ EmplaceThrows(o)
    BY <1>6, <2>2, EmplacePromised DEF MoveAssign
  <2>. QED
    BY <1>1, <1>6, <2>1, <2>2, AssignPromised DEF MoveAssign
<1>. QED
  BY <1>3, <1>4, <1>5, <1>6

LEMMA NextPromised ==
  ASSUME TypeOK, Next
  PROVE  Promise!ONext \/ Terminate
<1>1. PICK o \in Obj : Step(o)
  BY DEF Next
<1>2. ASSUME NEW p \in Obj,
             Map(o, p) \/ MapMove(o, p) \/ AndThen(o, p) \/ AndThenMove(o, p)
      PROVE  Promise!ONext
  <2>1. Mapped \in SUBSET Chained /\ Chained \in SUBSET Chained
    BY DEF Chained
  <2>. QED
    BY <1>2, <2>1, ComposePromised DEF Map, MapMove, AndThen, AndThenMove
<1>. QED
  BY <1>1, <1>2, UnaryPromised, BinaryPromised DEF Step

\* Result implements the sum values of Outcome, for any objects and payloads,
\* throwing or not: nothing is invented, and nothing is lost but the target of
\* an assignment between alternatives when moves may throw.
THEOREM ResultImplementsOutcome == Spec => ImplementsOutcome
<1>1. Init => Promise!OInit
  <2>1. NothrowMoves \in BOOLEAN
    BY DEF NothrowMoves
  <2>. QED
    BY <2>1 DEF Init, Promise!OInit
<1>2. Whole /\ [Next]_vars => [Promise!ONext]_Promise!ovars
  <2>. SUFFICES ASSUME Whole, [Next]_vars, ~Promise!ONext
                PROVE  UNCHANGED <<slot, thrown, NothrowMoves>>
    BY DEF Promise!ovars
  <2>1. Terminate \/ UNCHANGED vars
    BY NextPromised DEF Whole
  <2>2. throwing' = throwing /\ slot' = slot /\ thrown' = thrown
    BY <2>1 DEF Terminate, vars
  <2>3. (NothrowMoves' <=> NothrowMoves)
    BY <2>2 DEF NothrowMoves, Throws
  <2>4. NothrowMoves \in BOOLEAN /\ NothrowMoves' \in BOOLEAN
    BY DEF NothrowMoves
  <2>. QED
    BY <2>2, <2>3, <2>4
<1>. QED
  BY <1>1, <1>2, WholeInit, WholeStep, PTL DEF Spec, ImplementsOutcome,
     Promise!OSpec
=============================================================================
