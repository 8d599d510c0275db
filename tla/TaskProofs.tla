----------------------------- MODULE TaskProofs -----------------------------
(* Theorems about Task, for every set of coroutines and Tasks. *)
EXTENDS Task, SequenceTheorems, FiniteSetTheorems, TLAPS

(***************************************************************************)
(* Type correctness.                                                       *)
(***************************************************************************)

\* Taking the innermost coroutine off the resume stack leaves a stack.
LEMMA PopType ==
  ASSUME stack \in Seq(Coro)
  PROVE  Pop \in Seq(Coro)
<1>1. CASE stack = <<>>
  BY <1>1 DEF Pop
<1>2. CASE stack # <<>>
  <2>1. Len(stack) \in Nat \ {0}
    BY <1>2, EmptySeq, LenProperties
  <2>2. 1 \in 1..Len(stack)+1 /\ Len(stack) - 1 \in 0..Len(stack)
    BY <2>1
  <2> QED
    BY <2>1, <2>2, SubSeqProperties DEF Pop
<1> QED
  BY <1>1, <1>2

\* A symmetric transfer keeps a stack of coroutines, and so does the end of a
\* body, whether or not a continuation waits for it.
LEMMA TransferType ==
  ASSUME stack \in Seq(Coro), NEW q \in Coro \cup {None}
  PROVE  /\ q \in Coro => TransferTo(q) \in Seq(Coro)
         /\ Successor(q) \in Seq(Coro)
BY PopType, DistinctAssumption DEF TransferTo, Successor

LEMMA InitType == Init => TypeOK
BY DEF Init, TypeOK, State, Content

\* Moving a value out keeps the types.
LEMMA MovedOutType ==
  ASSUME TypeOK
  PROVE  /\ value \in [Coro -> Content]
         /\ \A c \in Coro : MovedOut(c) \in [Coro -> Content]
BY DEF TypeOK, MovedOut, Content

\* So does ending a full expression with what its Awaiters own.
LEMMA EndAwaitersType ==
  ASSUME TypeOK, NEW p \in Coro, EndAwaiters(p)
  PROVE  /\ handle' \in [Var -> Coro \cup {None}]
         /\ awaiter' \in [Coro -> Coro \cup {None}]
         /\ continuation' \in [Coro -> Coro \cup {None}]
         /\ state' \in [Coro -> State]
BY DEF EndAwaiters, TypeOK, Emptied, Cleared, Released, Destroyed, State

LEMMA StepType ==
  ASSUME TypeOK, [Next]_vars
  PROVE  TypeOK'
<1> USE DEF TypeOK
<1>1. ASSUME NEW v \in Var, NEW c \in Coro, Create(v, c)
      PROVE  TypeOK'
  BY <1>1 DEF Create, State
<1>2. ASSUME NEW v \in Var, NEW w \in Var, MoveAssign(v, w)
      PROVE  TypeOK'
  BY <1>2 DEF MoveAssign, Emptied, Exchanged, Released, Destroyed, State
<1>3. ASSUME NEW v \in Var, Destroy(v)
      PROVE  TypeOK'
  BY <1>3 DEF Destroy, Emptied, Released, Destroyed, State
<1>4. ASSUME NEW v \in Var, Start(v)
      PROVE  TypeOK'
  <2>1. CASE StartEmpty(v)
    BY <2>1 DEF StartEmpty, Raise, Exception
  <2>2. CASE StartDone(v)
    BY <2>2 DEF StartDone, vars
  <2>3. CASE StartResume(v)
    BY <2>3 DEF StartResume, Entered, State
  <2> QED
    BY <1>4, <2>1, <2>2, <2>3 DEF Start
<1>5. ASSUME NEW v \in Var, Result(v)
      PROVE  TypeOK'
  <2>1. CASE ResultUnavailable(v)
    BY <2>1 DEF ResultUnavailable, Raise, Exception
  <2>2. CASE ResultKept(v) \/ ResultMoved(v)
    <3>1. handle[v] \in Coro /\ ResultAvailable(v)
      BY <2>2 DEF ResultKept, ResultMoved, ResultAvailable, Completed
    <3>2. Outcome(handle[v]) \in Exception \cup Content \cup {"void"}
      BY <3>1 DEF Outcome, ValueOutcome, VoidOutcome
    <3>3. value' \in [Coro -> Content]
      BY <2>2, <3>1, MovedOutType DEF ResultKept, ResultMoved
    <3> QED
      BY <3>1, <3>2, <3>3 DEF ResultAvailable, Observe
  <2> QED
    BY <1>5, <2>1, <2>2 DEF Result
<1>6. ASSUME NEW v \in Var, NEW p \in Coro, Await(p, v)
      PROVE  TypeOK'
  <2>1. CASE AwaitImmediate(p, v)
    BY <2>1 DEF AwaitImmediate, ConsumeTask, Exchanged, State
  <2>2. CASE AwaitSuspend(p, v)
    <3>1. handle[v] \in Coro
      BY <2>2 DEF AwaitSuspend, AwaitReady
    <3> QED
      BY <2>2, <3>1, TransferType
      DEF AwaitSuspend, ConsumeTask, Exchanged, Connected, Entered, State
  <2> QED
    BY <1>6, <2>1, <2>2 DEF Await
<1>7. ASSUME NEW p \in Coro, AwaitResume(p)
      PROVE  TypeOK'
  <2>1. CASE AwaitResumeEmpty(p)
    BY <2>1 DEF AwaitResumeEmpty, Exception, State
  <2>2. CASE AwaitResumeOwned(p)
    <3>1. awaiter[p] \in Coro
      BY <2>2 DEF AwaitResumeOwned
    <3>2. Outcome(awaiter[p]) \in Exception \cup Content \cup {"void"}
      BY <3>1 DEF Outcome, ValueOutcome, VoidOutcome
    <3>3. inflight' \in [Coro -> Exception \cup {None}]
      BY <2>2, <3>1 DEF AwaitResumeOwned, ResumeThrows, Exception
    <3>4. obs' \in [Coro -> SUBSET (Exception \cup Content \cup {"void"})]
      BY <2>2, <3>2 DEF AwaitResumeOwned, Observe
    <3>5. value' \in [Coro -> Content]
      BY <2>2, MovedOutType DEF AwaitResumeOwned
    <3>6. CASE EndAwaiters(p)
      BY <2>2, <3>3, <3>4, <3>5, <3>6, EndAwaitersType DEF AwaitResumeOwned
    <3>7. ASSUME NEW v \in Var, KeepAwaiter(p, v)
          PROVE  TypeOK'
      BY <2>2, <3>3, <3>4, <3>5, <3>7 DEF AwaitResumeOwned, KeepAwaiter, State
    <3> QED
      BY <2>2, <3>6, <3>7, TempAssumption DEF AwaitResumeOwned, Temporaries
  <2> QED
    BY <1>7, <2>1, <2>2 DEF AwaitResume
<1>8. ASSUME NEW p \in Coro, FinalSuspend(p)
      PROVE  /\ handle' \in [Var -> Coro \cup {None}]
             /\ awaiter' \in [Coro -> Coro \cup {None}]
             /\ continuation' \in [Coro -> Coro \cup {None}]
             /\ state' \in [Coro -> State]
             /\ stack' \in Seq(Coro)
  <2>1. continuation[p] \in Coro \cup {None}
    OBVIOUS
  <2> QED
    BY <1>8, <2>1, TransferType DEF FinalSuspend, Emptied, Released, State
<1>9. ASSUME NEW p \in Coro, Return(p)
      PROVE  TypeOK'
  BY <1>8, <1>9 DEF Return, ReturnValue, ReturnVoid, Exception, Content
<1>10. ASSUME NEW p \in Coro, Unhandled(p)
       PROVE  TypeOK'
  BY <1>8, <1>10 DEF Unhandled
<1>11. ASSUME NEW p \in Coro, Throw(p) \/ Catch(p) \/ EndExpression(p)
       PROVE  TypeOK'
  BY <1>11, EndAwaitersType DEF Throw, Catch, EndExpression, Exception
<1>12. ASSUME NEW p \in Coro, Suspend(p)
       PROVE  TypeOK'
  BY <1>12, PopType, LeafAssumption DEF Suspend, State
<1>13. ASSUME NEW p \in Coro, Wake(p)
       PROVE  TypeOK'
  BY <1>13 DEF Wake, State
<1>14. CASE UNCHANGED vars
  BY <1>14 DEF vars
<1> QED
  BY <1>1, <1>2, <1>3, <1>4, <1>5, <1>6, <1>7, <1>9, <1>10, <1>11, <1>12,
     <1>13, <1>14
  DEF Next, TaskStep, BodyStep

\* Every variable keeps its type: in particular no transfer ever puts anything
\* but a coroutine on the resume stack.
THEOREM TypeCorrect == Spec => []TypeOK
<1>1. Init => TypeOK
  BY InitType
<1>2. TypeOK /\ [Next]_vars => TypeOK'
  BY StepType
<1> QED
  BY <1>1, <1>2, PTL DEF Spec

(***************************************************************************)
(* What destroying frames does to ownership.                               *)
(***************************************************************************)

\* A subtree consists of frames, contains its root and all its members own.
LEMMA SubtreeClosed ==
  ASSUME NEW c \in Coro \cup {None}
  PROVE  /\ Subtree(c) \subseteq Coro
         /\ c \in Coro => c \in Subtree(c)
         /\ c = None => Subtree(c) = {}
         /\ ClosedUnderOwns(Subtree(c))
<1>1. c \in Coro => c \in Subtree(c)
  BY DistinctAssumption DEF Subtree
<1>2. ASSUME NEW x \in Subtree(c), NEW d \in Coro, Owns(x, d)
      PROVE  d \in Subtree(c)
  BY <1>2 DEF Subtree, ClosedUnderOwns
<1> QED
  BY <1>1, <1>2 DEF Subtree, ClosedUnderOwns

\* A subtree lies within every closed set that contains its root.
LEMMA SubtreeLeast ==
  ASSUME NEW c, NEW S \in SUBSET Coro, c \in S, ClosedUnderOwns(S)
  PROVE  Subtree(c) \subseteq S
BY DEF Subtree

\* Every member of a subtree but the root is owned by a member.
LEMMA SubtreeOwned ==
  ASSUME NEW c \in Coro \cup {None}, NEW d \in Subtree(c), d # c
  PROVE  \E x \in Subtree(c) : Owns(x, d)
<1> SUFFICES ASSUME \A x \in Subtree(c) : ~Owns(x, d)
             PROVE  FALSE
  OBVIOUS
<1> DEFINE S == Subtree(c) \ {d}
<1>1. S \in SUBSET Coro /\ c \in S
  BY SubtreeClosed
<1>2. ClosedUnderOwns(S)
  BY SubtreeClosed DEF ClosedUnderOwns
<1> QED
  BY <1>1, <1>2, SubtreeLeast

\* D can be taken out of the ownership forest by clearing the Tasks V and the
\* Awaiters P: it is closed, and every member is held from within or by them.
Detaches(D, V, P) ==
  /\ D \subseteq Coro
  /\ ClosedUnderOwns(D)
  /\ \A v \in V : handle[v] \in D \cup {None}
  /\ \A p \in P : awaiter[p] \in D \cup {None}
  /\ \A d \in D : \/ \E v \in V : handle[v] = d
                  \/ \E p \in P : awaiter[p] = d
                  \/ \E x \in D : Owns(x, d)

LEMMA DetachTask ==
  ASSUME TypeOK, NEW v \in Var
  PROVE  Detaches(Subtree(handle[v]), {v}, {})
<1>1. handle[v] \in Coro \cup {None}
  BY DEF TypeOK
<1> QED
  BY <1>1, SubtreeClosed, SubtreeOwned DEF Detaches

LEMMA DetachAwaiter ==
  ASSUME TypeOK, NEW p \in Coro
  PROVE  Detaches(Subtree(awaiter[p]), {}, {p})
<1>1. awaiter[p] \in Coro \cup {None}
  BY DEF TypeOK
<1> QED
  BY <1>1, SubtreeClosed, SubtreeOwned DEF Detaches

LEMMA DetachHeld ==
  ASSUME TypeOK, NEW V \in SUBSET Var
  PROVE  Detaches(HeldBy(V), V, {})
<1>1. \A u \in V : handle[u] \in Coro \cup {None}
  BY DEF TypeOK
<1>2. \A u \in V : /\ Subtree(handle[u]) \subseteq Coro
                   /\ handle[u] \in Subtree(handle[u]) \cup {None}
                   /\ ClosedUnderOwns(Subtree(handle[u]))
  BY <1>1, SubtreeClosed
<1>3. \A d \in HeldBy(V) : \E u \in V : d \in Subtree(handle[u])
  BY DEF HeldBy
<1>4. \A u \in V : Subtree(handle[u]) \subseteq HeldBy(V)
  BY DEF HeldBy
<1>5. ClosedUnderOwns(HeldBy(V))
  BY <1>2, <1>3, <1>4 DEF ClosedUnderOwns
<1>6. ASSUME NEW d \in HeldBy(V)
      PROVE  (\E u \in V : handle[u] = d) \/ \E x \in HeldBy(V) : Owns(x, d)
  BY <1>1, <1>3, <1>4, <1>6, SubtreeOwned
<1> QED
  BY <1>2, <1>3, <1>4, <1>5, <1>6 DEF Detaches

LEMMA DetachLocals ==
  ASSUME TypeOK, NEW p \in Coro
  PROVE  Detaches(LocalsOf(p), {u \in Var : Home[u] = p}, {})
BY DetachHeld DEF LocalsOf

LEMMA DetachAwaiters ==
  ASSUME TypeOK, NEW p \in Coro
  PROVE  Detaches(AwaitersOf(p), Temporaries(p), {p})
<1>1. Detaches(Subtree(awaiter[p]), {}, {p})
  BY DetachAwaiter
<1>2. Detaches(HeldBy(Temporaries(p)), Temporaries(p), {})
  <2>1. Temporaries(p) \in SUBSET Var
    BY TempAssumption DEF Temporaries
  <2> QED
    BY <2>1, DetachHeld
<1> QED
  BY <1>1, <1>2 DEF Detaches, AwaitersOf, ClosedUnderOwns

\* With unique owners, taking D out clears exactly the handles of members of D.
LEMMA DetachExact ==
  ASSUME TypeOK, UniqueOwner, NEW D, NEW V \in SUBSET Var, NEW P \in SUBSET Coro,
         Detaches(D, V, P)
  PROVE  /\ \A u \in Var : handle[u] # None =>
              (u \in V \/ Home[u] \in D <=> handle[u] \in D)
         /\ \A x \in Coro : awaiter[x] # None =>
              (x \in P \/ x \in D <=> awaiter[x] \in D)
<1>1. ASSUME NEW u \in Var, handle[u] # None, u \in V \/ Home[u] \in D
      PROVE  handle[u] \in D
  BY <1>1 DEF Detaches, ClosedUnderOwns, Owns, TypeOK
<1>2. ASSUME NEW u \in Var, handle[u] # None, handle[u] \in D
      PROVE  u \in V \/ Home[u] \in D
  BY <1>2 DEF Detaches, Owns, UniqueOwner, TypeOK
<1>3. ASSUME NEW x \in Coro, awaiter[x] # None, x \in P \/ x \in D
      PROVE  awaiter[x] \in D
  BY <1>3 DEF Detaches, ClosedUnderOwns, Owns, TypeOK
<1>4. ASSUME NEW x \in Coro, awaiter[x] # None, awaiter[x] \in D
      PROVE  x \in P \/ x \in D
  BY <1>4 DEF Detaches, Owns, UniqueOwner, TypeOK
<1> QED
  BY <1>1, <1>2, <1>3, <1>4

\* What the main program still reaches without D covers what is alive and not
\* in D, so taking D out leaks nothing.
LEMMA DetachRooted ==
  ASSUME TypeOK, NoLeak, NEW D \in SUBSET Coro, ClosedUnderOwns(D),
         NEW S \in SUBSET Coro,
         \A u \in Var : Home[u] \in S \cup {Main} => handle[u] \in S \cup D \cup {None},
         \A x \in S : awaiter[x] \in S \cup D \cup {None}
  PROVE  \A c \in Coro : Alive(c) => c \in S \cup D
<1> DEFINE T == S \cup D
<1>1. T \in SUBSET Coro
  OBVIOUS
<1>2. \A v \in Var : Home[v] = Main /\ handle[v] # None => handle[v] \in T
  OBVIOUS
<1>3. ClosedUnderOwns(T)
  <2> SUFFICES ASSUME NEW x \in T, NEW d \in Coro, Owns(x, d)
               PROVE  d \in T
    BY DEF ClosedUnderOwns
  <2>1. CASE x \in D
    BY <2>1 DEF ClosedUnderOwns
  <2>2. CASE x \in S
    BY <2>2, DistinctAssumption DEF Owns
  <2> QED
    BY <2>1, <2>2
<1> QED
  BY <1>1, <1>2, <1>3 DEF NoLeak

\* No frame that exists is in the subtree of what it owns.
LEMMA NoCycle ==
  ASSUME TypeOK, UniqueOwner, NoLeak,
         NEW D, NEW V \in SUBSET Var, NEW P \in SUBSET Coro, Detaches(D, V, P),
         \A v \in V : Home[v] \in D, P \subseteq D
  PROVE  \A d \in D : ~Alive(d)
<1> DEFINE S == Coro \ D
<1>1. D \subseteq Coro /\ Main \notin D
  BY DistinctAssumption DEF Detaches
<1>2. \A v \in Var : Home[v] = Main /\ handle[v] # None => handle[v] \in S
  BY <1>1, DetachExact DEF TypeOK
<1>3. ClosedUnderOwns(S)
  <2> SUFFICES ASSUME NEW x \in S, NEW d \in Coro, Owns(x, d)
               PROVE  d \in S
    BY DEF ClosedUnderOwns
  <2> QED
    BY DetachExact, DistinctAssumption DEF Owns
<1> QED
  BY <1>1, <1>2, <1>3 DEF NoLeak

(***************************************************************************)
(* The inductive invariant.  Unique ownership alone is not inductive: that *)
(* a frame never lies in the subtree it destroys needs NoLeak, and that an *)
(* Awaiter is free when co_await fills it needs Linked: ContinuationSound  *)
(* but for what the owners of frames add to it.                            *)
(***************************************************************************)

Linked ==
  /\ \A p \in Coro : state[p] = "await" =>
       /\ awaiter[p] # None
       /\ Alive(awaiter[p]) /\ ~Done(awaiter[p])
       /\ continuation[awaiter[p]] = p
  /\ \A c \in Coro : continuation[c] # None =>
       /\ Alive(c)
       /\ \/ awaiter[continuation[c]] = c
          \/ Done(c) /\ \E v \in Temporaries(continuation[c]) : handle[v] = c
  /\ \A p \in Coro : awaiter[p] # None => state[p] \in {"await", "resume"}
  /\ \A v \in Temp : handle[v] # None => Done(handle[v])

Ownership == TypeOK /\ UniqueOwner /\ NoLeak /\ Linked

\* The step takes D out of the awaiters, the continuations and the states; and
\* out of every variable.
Cut(D) ==
  /\ D \subseteq Coro
  /\ ClosedUnderOwns(D)
  /\ \A x \in Coro : awaiter'[x] = IF awaiter[x] \in D THEN None ELSE awaiter[x]
  /\ \A c \in Coro :
       continuation'[c] = IF c \in D THEN None ELSE continuation[c]
  /\ \A c \in D : state'[c] = "dead"
  /\ \A u \in Temp : handle'[u] = IF handle[u] \in D THEN None ELSE handle[u]

Detached(D) ==
  /\ Cut(D)
  /\ \A u \in Var : handle'[u] = IF handle[u] \in D THEN None ELSE handle[u]

LEMMA DestroyDetaches ==
  ASSUME Ownership, NEW v \in Var, Destroy(v)
  PROVE  /\ Detached(Subtree(handle[v]))
         /\ \A x \in Coro : awaiter[x] \in Subtree(handle[v])
                             => x \in Subtree(handle[v])
         /\ \A c \in Coro : c \notin Subtree(handle[v]) => state'[c] = state[c]
<1> DEFINE D == Subtree(handle[v])
<1>1. Detaches(D, {v}, {})
  BY DetachTask DEF Ownership
<1>2. /\ D \subseteq Coro
      /\ \A u \in Var : handle[u] # None =>
           (u = v \/ Home[u] \in D <=> handle[u] \in D)
      /\ \A x \in Coro : awaiter[x] # None => (x \in D <=> awaiter[x] \in D)
  <2>1. {v} \in SUBSET Var /\ {} \in SUBSET Coro
    OBVIOUS
  <2>2. /\ \A u \in Var : handle[u] # None =>
             (u \in {v} \/ Home[u] \in D <=> handle[u] \in D)
        /\ \A x \in Coro : awaiter[x] # None =>
             (x \in {} \/ x \in D <=> awaiter[x] \in D)
    BY <1>1, <2>1, DetachExact DEF Ownership
  <2> QED
    BY <1>1, <2>2 DEF Detaches
<1> HIDE DEF D
<1>3. /\ handle' = Emptied([handle EXCEPT ![v] = None], D)
      /\ awaiter' = Released(awaiter, D)
      /\ continuation' = Released(continuation, D)
      /\ state' = Destroyed(state, D)
  BY DEF Destroy, D
<1>4. Detached(D) /\ \A c \in Coro : c \notin D => state'[c] = state[c]
  BY <1>1, <1>2, <1>3, DistinctAssumption, TempAssumption
  DEF Detached, Cut, Detaches, Ownership, TypeOK, Emptied, Released, Destroyed
<1>5. \A x \in Coro : awaiter[x] \in D => x \in D
  BY <1>2, DistinctAssumption
<1> QED
  BY <1>4, <1>5 DEF D

LEMMA EndAwaitersDetaches ==
  ASSUME Ownership, NEW p \in Coro, Running(p), EndAwaiters(p)
  PROVE  /\ Detached(AwaitersOf(p))
         /\ p \notin AwaitersOf(p) /\ state'[p] = "active"
         /\ \A c \in Coro : c \notin AwaitersOf(p) \cup {p}
                             => state'[c] = state[c]
         /\ awaiter'[p] = None
         /\ \A x \in Coro : awaiter[x] \in AwaitersOf(p)
                             => x \in AwaitersOf(p) \cup {p}
<1> DEFINE D == AwaitersOf(p)
           V == Temporaries(p)
<1>0. V \in SUBSET Var /\ {p} \in SUBSET Coro /\ \A v \in V : Home[v] = p
  BY TempAssumption DEF Temporaries
<1>1. Detaches(D, V, {p})
  BY DetachAwaiters DEF Ownership
<1>2. p \notin D
  <2>1. Alive(p)
    BY DEF Running, Alive
  <2> HIDE DEF D, V
  <2>2. p \in D => \A d \in D : ~Alive(d)
    BY <1>0, <1>1, NoCycle DEF Ownership
  <2> QED
    BY <2>1, <2>2
<1>3. /\ D \subseteq Coro
      /\ \A u \in Var : handle[u] # None =>
           (u \in V \/ Home[u] \in D <=> handle[u] \in D)
      /\ \A x \in Coro : awaiter[x] # None =>
           (x = p \/ x \in D <=> awaiter[x] \in D)
  <2> HIDE DEF D, V
  <2>1. /\ \A u \in Var : handle[u] # None =>
             (u \in V \/ Home[u] \in D <=> handle[u] \in D)
        /\ \A x \in Coro : awaiter[x] # None =>
             (x \in {p} \/ x \in D <=> awaiter[x] \in D)
    BY <1>0, <1>1, DetachExact DEF Ownership
  <2> QED
    BY <1>1, <2>1 DEF Detaches
<1>4. /\ handle' = Emptied(Cleared(handle, V), D)
      /\ awaiter' = Released(awaiter, D \cup {p})
      /\ continuation' = Released(continuation, D)
      /\ state' = Destroyed([state EXCEPT ![p] = "active"], D)
  BY DEF EndAwaiters
<1> HIDE DEF D, V
<1>5. /\ Detached(D)
      /\ state'[p] = "active" /\ awaiter'[p] = None
      /\ \A c \in Coro : c \notin D \cup {p} => state'[c] = state[c]
  <2>1. \A u \in Var : handle'[u] = IF handle[u] \in D THEN None ELSE handle[u]
    BY <1>3, <1>4, DistinctAssumption DEF Ownership, TypeOK, Emptied, Cleared
  <2> QED
    BY <1>1, <1>2, <1>3, <1>4, <2>1, DistinctAssumption, TempAssumption
    DEF Detached, Cut, Detaches, Ownership, TypeOK, Released, Destroyed
<1>6. \A x \in Coro : awaiter[x] \in D => x \in D \cup {p}
  BY <1>3, DistinctAssumption
<1> QED
  BY <1>2, <1>5, <1>6 DEF D

\* A coroutine that executes is the one its continuation awaits.
LEMMA ContinuationAwaits ==
  ASSUME Ownership, NEW p \in Coro, Executing(p), continuation[p] # None
  PROVE  /\ continuation[p] \in Coro
         /\ awaiter[continuation[p]] = p
         /\ state[continuation[p]] \in {"await", "resume"}
BY DistinctAssumption DEF Ownership, Linked, TypeOK, Executing, Done

LEMMA FinalSuspendDetaches ==
  ASSUME Ownership, NEW p \in Coro, Executing(p), FinalSuspend(p)
  PROVE  /\ Detached(LocalsOf(p))
         /\ \A x \in Coro : awaiter[x] \in LocalsOf(p) => x \in LocalsOf(p)
         /\ p \notin LocalsOf(p) /\ continuation[p] \notin LocalsOf(p) \cup {p}
         /\ state'[p] = "final"
         /\ continuation[p] # None => state'[continuation[p]] = "resume"
         /\ \A c \in Coro : c \notin LocalsOf(p) \cup {p, continuation[p]}
                             => state'[c] = state[c]
<1> DEFINE D == LocalsOf(p)
           V == {u \in Var : Home[u] = p}
           q == continuation[p]
<1>1. Detaches(D, V, {})
  BY DetachLocals DEF Ownership
<1>2. p \notin D
  BY DEF FinalSuspend, Executing, Idle, Running
<1>3. q \notin D \cup {p}
  <2>1. q # None => awaiter[q] = p /\ state[q] \in {"await", "resume"}
    BY ContinuationAwaits
  <2>2. q \in D => p \in D
    BY <1>1, <2>1, DistinctAssumption DEF Detaches, ClosedUnderOwns, Owns
  <2> QED
    BY <1>1, <1>2, <2>1, <2>2, DistinctAssumption DEF Executing, Detaches
<1>4. /\ D \subseteq Coro
      /\ \A u \in Var : handle[u] # None =>
           (u \in V \/ Home[u] \in D <=> handle[u] \in D)
      /\ \A x \in Coro : awaiter[x] # None => (x \in D <=> awaiter[x] \in D)
  <2>1. V \in SUBSET Var /\ {} \in SUBSET Coro
    OBVIOUS
  <2>2. /\ \A u \in Var : handle[u] # None =>
             (u \in V \/ Home[u] \in D <=> handle[u] \in D)
        /\ \A x \in Coro : awaiter[x] # None =>
             (x \in {} \/ x \in D <=> awaiter[x] \in D)
    <3> HIDE DEF D, V
    <3> QED
      BY <1>1, <2>1, DetachExact DEF Ownership
  <2> QED
    BY <1>1, <2>2 DEF Detaches
<1> HIDE DEF D
<1>5. /\ handle' = Emptied(handle, D \cup {p})
      /\ awaiter' = Released(awaiter, D)
      /\ continuation' = Released(continuation, D)
      /\ state' = [c \in Coro |-> IF c \in D THEN "dead"
                                  ELSE IF c = p THEN "final"
                                  ELSE IF c = q THEN "resume"
                                  ELSE state[c]]
  BY DEF FinalSuspend, D
<1>6. q \in Coro \cup {None}
  BY DEF Ownership, TypeOK
<1>7. Detached(D)
  BY <1>1, <1>2, <1>4, <1>5, DistinctAssumption, TempAssumption
  DEF Detached, Cut, Detaches, Ownership, TypeOK, Emptied, Released
<1>8. /\ state'[p] = "final"
      /\ q # None => state'[q] = "resume"
      /\ \A c \in Coro : c \notin D \cup {p, q} => state'[c] = state[c]
  BY <1>2, <1>3, <1>5, <1>6
<1>9. \A x \in Coro : awaiter[x] \in D => x \in D
  BY <1>4, DistinctAssumption
<1> QED
  BY <1>2, <1>3, <1>7, <1>8, <1>9 DEF D

\* A step that takes D out, and neither creates nor destroys another frame,
\* leaves every other frame with its only owner.
LEMMA DetachedUnique ==
  ASSUME Ownership, NEW D, Detached(D),
         \A c \in Coro : c \notin D => (Alive(c)' <=> Alive(c))
  PROVE  UniqueOwner'
<1>1. \A c \in D : ~Alive(c)'
  BY DEF Detached, Cut, Alive
<1>2. /\ \A u \in Var : handle'[u] = IF handle[u] \in D THEN None ELSE handle[u]
      /\ \A x \in Coro :
           awaiter'[x] = IF awaiter[x] \in D THEN None ELSE awaiter[x]
      /\ D \subseteq Coro
  BY DEF Detached, Cut
<1>3. UniqueOwner
  BY DEF Ownership
<1>4. /\ \A u, x \in Var :
           handle'[u] = handle'[x] => u = x \/ handle'[u] = None
      /\ \A p, q \in Coro :
           awaiter'[p] = awaiter'[q] => p = q \/ awaiter'[p] = None
      /\ \A u \in Var, p \in Coro :
           handle'[u] = awaiter'[p] => handle'[u] = None
  BY <1>2, <1>3 DEF UniqueOwner
<1>5. ASSUME NEW c \in Coro
      PROVE  Alive(c)' <=> \/ \E u \in Var : handle'[u] = c
                           \/ \E x \in Coro : awaiter'[x] = c
  <2>1. CASE c \in D
    BY <1>1, <1>2, <2>1, DistinctAssumption
  <2>2. CASE c \notin D
    <3>1. Alive(c)' <=> \/ \E u \in Var : handle[u] = c
                        \/ \E x \in Coro : awaiter[x] = c
      BY <1>3, <2>2 DEF UniqueOwner
    <3>2. /\ \A u \in Var : handle'[u] = c <=> handle[u] = c
          /\ \A x \in Coro : awaiter'[x] = c <=> awaiter[x] = c
      BY <1>2, <2>2, DistinctAssumption
    <3> QED
      BY <3>1, <3>2
  <2> QED
    BY <2>1, <2>2
<1> QED
  BY <1>4, <1>5 DEF UniqueOwner

\* Nor does it leak any.
LEMMA DetachedRooted ==
  ASSUME Ownership, NEW D, Detached(D),
         \A c \in Coro : c \notin D => (Alive(c)' <=> Alive(c))
  PROVE  NoLeak'
<1> SUFFICES ASSUME NEW S \in SUBSET Coro,
                    \A v \in Var : Home[v] = Main /\ handle'[v] # None
                                     => handle'[v] \in S,
                    ClosedUnderOwns(S)'
             PROVE  \A c \in Coro : Alive(c)' => c \in S
  BY DEF NoLeak
<1>1. \A u \in Var : Home[u] \in S \cup {Main}
                      => handle[u] \in S \cup D \cup {None}
  BY DistinctAssumption DEF ClosedUnderOwns, Owns, Detached, Cut, Ownership, TypeOK
<1>2. \A x \in S : awaiter[x] \in S \cup D \cup {None}
  BY DistinctAssumption DEF ClosedUnderOwns, Owns, Detached, Cut, Ownership, TypeOK
<1>3. \A c \in Coro : Alive(c) => c \in S \cup D
  BY <1>1, <1>2, DetachRooted DEF Detached, Cut, Ownership
<1> QED
  BY <1>3 DEF Detached, Cut, Alive

\* A step that touches no owner, and creates and destroys nothing.
LEMMA QuietKeeps ==
  ASSUME Ownership, UNCHANGED <<handle, awaiter>>,
         \A c \in Coro : Alive(c)' <=> Alive(c)
  PROVE  UniqueOwner' /\ NoLeak'
BY DEF Ownership, UniqueOwner, NoLeak, ClosedUnderOwns, Owns

\* The code that can name a Task is main, or the frame on top, which executes.
LEMMA AccessibleHome ==
  ASSUME TypeOK, NEW v \in Var, Accessible(v)
  PROVE  /\ Top \in Coro \cup {Main}
         /\ Top # Main => state[Top] = "active"
         /\ \/ Home[v] = Main
            \/ Home[v] \in Coro /\ Home[v] = Top /\ state[Home[v]] = "active"
<1>1. Top \in Coro \cup {Main}
  BY EmptySeq, LenProperties DEF TypeOK, Top
<1> QED
  BY <1>1, HomeAssumption DEF Accessible, CanAct

\* Giving what w owns to h, which it does not own, while D is taken out, leaves
\* everything else reachable.
LEMMA HandOver ==
  ASSUME TypeOK, NoLeak, NEW D \in SUBSET Coro, ClosedUnderOwns(D),
         NEW w \in Var, NEW h \in Coro \cup {Main},
         h \notin Subtree(handle[w]), h \notin D, h # Main => Alive(h),
         NEW S \in SUBSET Coro,
         \A u \in Var : u # w /\ Home[u] \in S \cup {Main}
                          => handle[u] \in S \cup D \cup {None},
         \A x \in S : awaiter[x] \in S \cup D \cup {None},
         h \in S \cup {Main} => handle[w] \in S \cup {None}
  PROVE  \A c \in Coro : Alive(c) => c \in S \cup D
<1>1. CASE h \in S \cup {Main}
  BY <1>1, DetachRooted
<1>2. CASE h \notin S \cup {Main}
  <2> DEFINE E == D \cup Subtree(handle[w])
  <2>1. handle[w] \in Coro \cup {None}
    BY DEF TypeOK
  <2>2. E \in SUBSET Coro /\ ClosedUnderOwns(E)
    BY <2>1, SubtreeClosed DEF ClosedUnderOwns
  <2>3. handle[w] \in E \cup {None}
    BY <2>1, SubtreeClosed
  <2>4. \A u \in Var : Home[u] \in S \cup {Main} => handle[u] \in S \cup E \cup {None}
    BY <2>3
  <2>5. \A x \in S : awaiter[x] \in S \cup E \cup {None}
    OBVIOUS
  <2>6. \A c \in Coro : Alive(c) => c \in S \cup E
    <3> HIDE DEF E
    <3> QED
      BY <2>2, <2>4, <2>5, DetachRooted
  <2> QED
    BY <1>2, <2>6
<1> QED
  BY <1>1, <1>2

LEMMA CreateKeeps ==
  ASSUME Ownership, NEW v \in Var, NEW c \in Coro, Create(v, c)
  PROVE  UniqueOwner' /\ NoLeak'
<1>1. /\ handle[v] = None /\ handle' = [handle EXCEPT ![v] = c]
      /\ awaiter' = awaiter
      /\ ~Alive(c) /\ Alive(c)'
      /\ \A d \in Coro \ {c} : Alive(d)' <=> Alive(d)
  BY DEF Create, Alive, Ownership, TypeOK
<1>2. UniqueOwner'
  BY <1>1, DistinctAssumption DEF Ownership, TypeOK, UniqueOwner
<1>3. ASSUME NEW S \in SUBSET Coro,
             \A u \in Var : Home[u] = Main /\ handle'[u] # None
                              => handle'[u] \in S,
             ClosedUnderOwns(S)'
      PROVE  \A d \in Coro : Alive(d)' => d \in S
  <2>1. \A u \in Var : Home[u] = Main /\ handle[u] # None => handle[u] \in S
    BY <1>1, <1>3, DistinctAssumption DEF Ownership, TypeOK
  <2>2. ClosedUnderOwns(S)
    BY <1>1, <1>3, DistinctAssumption
    DEF ClosedUnderOwns, Owns, Ownership, TypeOK
  <2>3. \A d \in Coro : Alive(d) => d \in S
    BY <2>1, <2>2 DEF Ownership, NoLeak
  <2>4. Home[v] = Main \/ Home[v] \in S
    BY <2>3, AccessibleHome DEF Create, Alive, Ownership
  <2>5. handle'[v] = c
    BY <1>1 DEF Ownership, TypeOK
  <2>6. c \in S
    BY <1>3, <2>4, <2>5, DistinctAssumption DEF ClosedUnderOwns, Owns
  <2> QED
    BY <1>1, <2>3, <2>6
<1> QED
  BY <1>2, <1>3 DEF NoLeak

LEMMA MoveEffect ==
  ASSUME Ownership, NEW v \in Var, NEW w \in Var, MoveAssign(v, w)
  PROVE  LET D == Subtree(handle[v]) IN
         /\ D \subseteq Coro /\ ClosedUnderOwns(D)
         /\ Top \notin D /\ Home[v] \notin D /\ handle[w] \notin D
         /\ \A u \in Var :
              handle'[u] = IF u = v THEN handle[w]
                           ELSE IF u = w \/ handle[u] \in D THEN None
                           ELSE handle[u]
         /\ \A x \in Coro :
              awaiter'[x] = IF awaiter[x] \in D THEN None ELSE awaiter[x]
         /\ \A c \in Coro :
              continuation'[c] = IF c \in D THEN None ELSE continuation[c]
         /\ \A c \in Coro : state'[c] = IF c \in D THEN "dead" ELSE state[c]
         /\ \A x \in Coro : awaiter[x] \in D => x \in D
<1> DEFINE D == Subtree(handle[v])
<1>1. Detaches(D, {v}, {})
  BY DetachTask DEF Ownership
<1>2. /\ D \subseteq Coro /\ ClosedUnderOwns(D)
      /\ \A u \in Var : handle[u] # None =>
           (u = v \/ Home[u] \in D <=> handle[u] \in D)
      /\ \A x \in Coro : awaiter[x] # None => (x \in D <=> awaiter[x] \in D)
  <2>1. {v} \in SUBSET Var /\ {} \in SUBSET Coro
    OBVIOUS
  <2>2. /\ \A u \in Var : handle[u] # None =>
             (u \in {v} \/ Home[u] \in D <=> handle[u] \in D)
        /\ \A x \in Coro : awaiter[x] # None =>
             (x \in {} \/ x \in D <=> awaiter[x] \in D)
    BY <1>1, <2>1, DetachExact DEF Ownership
  <2> QED
    BY <1>1, <2>2 DEF Detaches
<1> HIDE DEF D
<1>3. /\ v # w /\ Accessible(v) /\ Accessible(w) /\ Idle(D)
      /\ handle' = Emptied([Exchanged(handle, w) EXCEPT ![v] = handle[w]], D)
      /\ awaiter' = Released(awaiter, D)
      /\ continuation' = Released(continuation, D)
      /\ state' = Destroyed(state, D)
  BY DEF MoveAssign, D
<1>4. Top \notin D /\ Home[v] \notin D /\ Home[w] \notin D
  BY <1>2, <1>3, AccessibleHome, DistinctAssumption
  DEF Idle, Running, Ownership
<1>5. handle[w] \notin D
  BY <1>2, <1>3, <1>4, DistinctAssumption
<1>6. \A u \in Var :
        handle'[u] = IF u = v THEN handle[w]
                     ELSE IF u = w \/ handle[u] \in D THEN None
                     ELSE handle[u]
  BY <1>2, <1>3, <1>4, DistinctAssumption
  DEF Emptied, Exchanged, Ownership, TypeOK
<1>7. /\ \A x \in Coro :
           awaiter'[x] = IF awaiter[x] \in D THEN None ELSE awaiter[x]
      /\ \A c \in Coro :
           continuation'[c] = IF c \in D THEN None ELSE continuation[c]
      /\ \A c \in Coro : state'[c] = IF c \in D THEN "dead" ELSE state[c]
  BY <1>2, <1>3, DistinctAssumption DEF Released, Destroyed, Ownership, TypeOK
<1>8. \A x \in Coro : awaiter[x] \in D => x \in D
  BY <1>2, DistinctAssumption
<1> QED
  BY <1>2, <1>4, <1>5, <1>6, <1>7, <1>8 DEF D

LEMMA MoveKeeps ==
  ASSUME Ownership, NEW v \in Var, NEW w \in Var, MoveAssign(v, w)
  PROVE  UniqueOwner' /\ NoLeak'
<1> DEFINE D == Subtree(handle[v])
<1>1. /\ D \subseteq Coro /\ ClosedUnderOwns(D)
      /\ Top \notin D /\ Home[v] \notin D /\ handle[w] \notin D
      /\ \A u \in Var :
           handle'[u] = IF u = v THEN handle[w]
                        ELSE IF u = w \/ handle[u] \in D THEN None
                        ELSE handle[u]
      /\ \A x \in Coro :
           awaiter'[x] = IF awaiter[x] \in D THEN None ELSE awaiter[x]
      /\ \A c \in Coro : state'[c] = IF c \in D THEN "dead" ELSE state[c]
  BY MoveEffect
<1>2. handle[v] \in D \cup {None}
  BY SubtreeClosed DEF Ownership, TypeOK
<1> HIDE DEF D
<1>3. UniqueOwner'
  <2>1. \A c \in Coro : Alive(c)' <=> Alive(c) /\ c \notin D
    BY <1>1 DEF Alive
  <2>2. \A c \in Coro : c \notin D =>
          (\/ \E u \in Var : handle'[u] = c
           \/ \E x \in Coro : awaiter'[x] = c)
          <=> \/ \E u \in Var : handle[u] = c
              \/ \E x \in Coro : awaiter[x] = c
    BY <1>1, <1>2, DistinctAssumption DEF Ownership, TypeOK, UniqueOwner
  <2>3. \A c \in D : /\ \A u \in Var : handle'[u] # c
                     /\ \A x \in Coro : awaiter'[x] # c
    BY <1>1, DistinctAssumption
  <2>4. /\ \A u, x \in Var :
             handle'[u] = handle'[x] => u = x \/ handle'[u] = None
        /\ \A p, q \in Coro :
             awaiter'[p] = awaiter'[q] => p = q \/ awaiter'[p] = None
        /\ \A u \in Var, p \in Coro :
             handle'[u] = awaiter'[p] => handle'[u] = None
    BY <1>1 DEF Ownership, TypeOK, UniqueOwner
  <2>5. \A c \in Coro : Alive(c)' <=> \/ \E u \in Var : handle'[u] = c
                                      \/ \E x \in Coro : awaiter'[x] = c
    BY <2>1, <2>2, <2>3 DEF Ownership, UniqueOwner
  <2> QED
    BY <2>4, <2>5 DEF UniqueOwner
<1>4. ASSUME NEW S \in SUBSET Coro,
             \A u \in Var : Home[u] = Main /\ handle'[u] # None
                              => handle'[u] \in S,
             ClosedUnderOwns(S)'
      PROVE  \A d \in Coro : Alive(d)' => d \in S
  <2>1. \A u \in Var : u # w /\ Home[u] \in S \cup {Main}
                         => handle[u] \in S \cup D \cup {None}
    BY <1>1, <1>2, <1>4, DistinctAssumption
    DEF ClosedUnderOwns, Owns, Ownership, TypeOK
  <2>2. \A x \in S : awaiter[x] \in S \cup D \cup {None}
    BY <1>1, <1>4, DistinctAssumption
    DEF ClosedUnderOwns, Owns, Ownership, TypeOK
  <2>3. Home[v] \in S \cup {Main} => handle[w] \in S \cup {None}
    BY <1>1, <1>4, DistinctAssumption
    DEF ClosedUnderOwns, Owns, Ownership, TypeOK
  <2>4. /\ Home[v] \in Coro \cup {Main}
        /\ Home[v] # Main => Alive(Home[v])
        /\ Home[v] \notin Subtree(handle[w])
    BY AccessibleHome, HomeAssumption DEF MoveAssign, Ownership, Alive
  <2>5. \A d \in Coro : Alive(d) => d \in S \cup D
    BY <1>1, <2>1, <2>2, <2>3, <2>4, HandOver DEF Ownership
  <2> QED
    BY <1>1, <2>5 DEF Alive
<1> QED
  BY <1>3, <1>4 DEF NoLeak

\* What co_await suspends for is there, has not completed and can be resumed.
LEMMA SuspendsForResumable ==
  ASSUME NEW p, NEW v \in Var, AwaitSuspend(p, v)
  PROVE  handle[v] # None /\ ~Done(handle[v]) /\ Resumable(handle[v])
BY DEF AwaitSuspend, AwaitReady

LEMMA AwaitEffect ==
  ASSUME Ownership, NEW p \in Coro, NEW v \in Var, Await(p, v)
  PROVE  /\ state[p] = "active" /\ awaiter[p] = None
         /\ p \notin Subtree(handle[v])
         /\ \A u \in Var : handle'[u] = IF u = v THEN None ELSE handle[u]
         /\ \A x \in Coro : awaiter'[x] = IF x = p THEN handle[v] ELSE awaiter[x]
         /\ \A c \in Coro : Alive(c)' <=> Alive(c)
<1>1. ConsumeTask(p, v)
  BY DEF Await, AwaitImmediate, AwaitSuspend
<1>2. state[p] = "active" /\ awaiter[p] = None
  BY <1>1, AccessibleHome, DistinctAssumption
  DEF ConsumeTask, Ownership, Linked
<1>3. /\ p \notin Subtree(handle[v])
      /\ \A u \in Var : handle'[u] = IF u = v THEN None ELSE handle[u]
      /\ \A x \in Coro : awaiter'[x] = IF x = p THEN handle[v] ELSE awaiter[x]
  BY <1>1 DEF ConsumeTask, Exchanged, Ownership, TypeOK
<1>4. \A c \in Coro : Alive(c)' <=> Alive(c)
  <2>1. CASE AwaitImmediate(p, v)
    BY <1>2, <2>1 DEF AwaitImmediate, Alive, Ownership, TypeOK
  <2>2. CASE AwaitSuspend(p, v)
    BY <1>2, <2>2, SuspendsForResumable
    DEF AwaitSuspend, Resumable, Entered, Alive, Ownership, TypeOK
  <2> QED
    BY <2>1, <2>2 DEF Await
<1> QED
  BY <1>2, <1>3, <1>4

LEMMA AwaitKeeps ==
  ASSUME Ownership, NEW p \in Coro, NEW v \in Var, Await(p, v)
  PROVE  UniqueOwner' /\ NoLeak'
<1>1. /\ state[p] = "active" /\ awaiter[p] = None
      /\ p \notin Subtree(handle[v])
      /\ \A u \in Var : handle'[u] = IF u = v THEN None ELSE handle[u]
      /\ \A x \in Coro : awaiter'[x] = IF x = p THEN handle[v] ELSE awaiter[x]
      /\ \A c \in Coro : Alive(c)' <=> Alive(c)
  BY AwaitEffect
<1>2. UniqueOwner'
  <2>1. /\ \A u, x \in Var :
             handle'[u] = handle'[x] => u = x \/ handle'[u] = None
        /\ \A x, q \in Coro :
             awaiter'[x] = awaiter'[q] => x = q \/ awaiter'[x] = None
        /\ \A u \in Var, x \in Coro :
             handle'[u] = awaiter'[x] => handle'[u] = None
    BY <1>1 DEF Ownership, TypeOK, UniqueOwner
  <2>2. ASSUME NEW c \in Coro
        PROVE  ((\E u \in Var : handle'[u] = c) \/ \E x \in Coro : awaiter'[x] = c)
               <=> ((\E u \in Var : handle[u] = c) \/ \E x \in Coro : awaiter[x] = c)
    BY <1>1, DistinctAssumption DEF Ownership, TypeOK
  <2> QED
    BY <1>1, <2>1, <2>2 DEF UniqueOwner, Ownership
<1>3. ASSUME NEW S \in SUBSET Coro,
             \A u \in Var : Home[u] = Main /\ handle'[u] # None
                              => handle'[u] \in S,
             ClosedUnderOwns(S)'
      PROVE  \A d \in Coro : Alive(d)' => d \in S
  <2> DEFINE D == {}
  <2>1. D \in SUBSET Coro /\ ClosedUnderOwns(D) /\ p \notin D
    BY DEF ClosedUnderOwns
  <2>2. \A u \in Var : u # v /\ Home[u] \in S \cup {Main}
                         => handle[u] \in S \cup D \cup {None}
    BY <1>1, <1>3, DistinctAssumption
    DEF ClosedUnderOwns, Owns, Ownership, TypeOK
  <2>3. \A x \in S : awaiter[x] \in S \cup D \cup {None}
    BY <1>1, <1>3, DistinctAssumption
    DEF ClosedUnderOwns, Owns, Ownership, TypeOK
  <2>4. p \in S \cup {Main} => handle[v] \in S \cup {None}
    BY <1>1, <1>3, DistinctAssumption
    DEF ClosedUnderOwns, Owns, Ownership, TypeOK
  <2>5. p \in Coro \cup {Main} /\ (p # Main => Alive(p))
    BY <1>1 DEF Alive
  <2>6. \A d \in Coro : Alive(d) => d \in S \cup D
    <3> HIDE DEF D
    <3> QED
      BY <1>1, <2>1, <2>2, <2>3, <2>4, <2>5, HandOver DEF Ownership
  <2> QED
    BY <1>1, <2>6
<1> QED
  BY <1>2, <1>3 DEF NoLeak

(***************************************************************************)
(* Continuations.                                                          *)
(***************************************************************************)

\* Taking D out, and settling or resuming others, keeps continuations sound if
\* every coroutine that still awaits keeps a Task that has not completed.
LEMMA DetachedContinuation ==
  ASSUME Ownership, NEW D, Cut(D),
         \A c \in Coro : c \notin D => (Alive(c)' <=> Alive(c)),
         \A x \in Coro : x \notin D /\ state'[x] = "await" =>
           /\ state[x] = "await" /\ awaiter[x] \notin D
           /\ state'[awaiter[x]] # "final",
         \A x \in Coro : x \notin D /\ awaiter'[x] # None
                           => state'[x] \in {"await", "resume"},
         \A x \in Coro : x \notin D /\ state[x] = "final" => state'[x] = "final"
  PROVE  Linked'
<1>1. \A x \in D : /\ state'[x] = "dead"
                   /\ awaiter[x] # None => awaiter[x] \in D
  BY DEF Cut, ClosedUnderOwns, Owns, Ownership, TypeOK
<1>2. ASSUME NEW p \in Coro, state'[p] = "await"
      PROVE  /\ awaiter'[p] # None
             /\ Alive(awaiter[p])' /\ ~Done(awaiter[p])'
             /\ continuation'[awaiter'[p]] = p
  <2>1. p \notin D
    BY <1>1, <1>2
  <2>2. awaiter[p] # None /\ awaiter[p] \in Coro /\ awaiter[p] \notin D
    BY <1>2, <2>1 DEF Ownership, Linked, TypeOK
  <2>3. awaiter'[p] = awaiter[p]
    BY <2>2 DEF Cut
  <2>4. /\ state[p] = "await" /\ Alive(awaiter[p])
        /\ continuation[awaiter[p]] = p
    BY <1>2, <2>1 DEF Ownership, Linked
  <2>5. Alive(awaiter[p])'
    BY <2>2, <2>3, <2>4 DEF Alive
  <2> QED
    BY <1>2, <2>1, <2>2, <2>3, <2>4, <2>5 DEF Cut, Done
<1>3. ASSUME NEW c \in Coro, continuation'[c] # None
      PROVE  /\ Alive(c)'
             /\ \/ awaiter'[continuation'[c]] = c
                \/ /\ Done(c)'
                   /\ \E v \in Temporaries(continuation'[c]) : handle'[v] = c
  <2>1. c \notin D /\ continuation'[c] = continuation[c]
    BY <1>3 DEF Cut
  <2>2. /\ Alive(c) /\ continuation[c] \in Coro
        /\ \/ awaiter[continuation[c]] = c
           \/ Done(c) /\ \E v \in Temporaries(continuation[c]) : handle[v] = c
    BY <1>3, <2>1 DEF Ownership, Linked, TypeOK
  <2>3. CASE awaiter[continuation[c]] = c
    BY <2>1, <2>2, <2>3 DEF Cut
  <2>4. CASE Done(c) /\ \E v \in Temporaries(continuation[c]) : handle[v] = c
    <3>1. PICK v \in Temporaries(continuation[c]) : handle[v] = c
      BY <2>4
    <3>2. handle'[v] = c
      BY <2>1, <3>1 DEF Cut, Temporaries
    <3> QED
      BY <2>1, <2>2, <2>4, <3>2 DEF Done
  <2> QED
    BY <2>1, <2>2, <2>3, <2>4
<1>4. \A p \in Coro : awaiter'[p] # None => state'[p] \in {"await", "resume"}
  BY <1>1 DEF Cut
<1>5. ASSUME NEW v \in Temp, handle'[v] # None
      PROVE  Done(handle[v])'
  <2>1. handle'[v] = handle[v] /\ handle[v] \notin D /\ handle[v] \in Coro
    BY <1>5, TempAssumption DEF Cut, Ownership, TypeOK
  <2>2. Done(handle[v])
    BY <1>5, <2>1 DEF Ownership, Linked
  <2> QED
    BY <2>1, <2>2 DEF Done
<1> QED
  BY <1>2, <1>3, <1>4, <1>5 DEF Linked, Temporaries

\* A step that touches neither owners nor continuations.
LEMMA QuietContinuation ==
  ASSUME Ownership, UNCHANGED <<handle, awaiter, continuation>>,
         \A c \in Coro : Alive(c)' <=> Alive(c),
         \A c \in Coro : awaiter[c] # None => state'[c] \in {"await", "resume"},
         \A c \in Coro : state'[c] = "await" => state[c] = "await",
         \A c \in Coro : state'[c] = "final" <=> state[c] = "final"
  PROVE  Linked'
<1>1. \A c \in Coro : Done(c)' <=> Done(c)
  BY DEF Done
<1>2. \A v \in Temp : handle[v] # None => handle[v] \in Coro
  BY TempAssumption DEF Ownership, TypeOK
<1> QED
  BY <1>1, <1>2 DEF Ownership, Linked, TypeOK, Temporaries

\* What Linked says of the Awaiters that were kept, after a step that leaves
\* them, and the frames and continuations of those who have completed, alone.
LEMMA KeptLinks ==
  ASSUME Ownership, \A u \in Temp : handle'[u] = handle[u],
         \A d \in Coro : state[d] = "final" => state'[d] = "final"
  PROVE  /\ \A v \in Temp : handle'[v] # None => Done(handle[v])'
         /\ \A d \in Coro : \A q \in Coro :
              Done(d) /\ (\E v \in Temporaries(q) : handle[v] = d)
                => Done(d)' /\ \E v \in Temporaries(q) : handle'[v] = d
<1>1. \A v \in Temp : handle[v] # None => handle[v] \in Coro /\ Done(handle[v])
  BY TempAssumption DEF Ownership, Linked, TypeOK
<1> QED
  BY <1>1 DEF Done, Temporaries

LEMMA CreateContinuation ==
  ASSUME Ownership, NEW v \in Var, NEW c \in Coro, Create(v, c)
  PROVE  Linked'
<1>1. /\ ~Alive(c) /\ state'[c] = "start"
      /\ \A d \in Coro \ {c} : state'[d] = state[d]
      /\ awaiter' = awaiter /\ continuation' = continuation
  BY DEF Create, Alive, Ownership, TypeOK
<1>a. /\ \A u \in Temp : handle'[u] = handle[u]
      /\ \A d \in Coro : state[d] = "final" => state'[d] = "final"
  BY <1>1, TempAssumption DEF Create, Accessible, Alive, Ownership, TypeOK
<1>b. /\ \A u \in Temp : handle'[u] # None => Done(handle[u])'
      /\ \A d \in Coro : \A q \in Coro :
           Done(d) /\ (\E u \in Temporaries(q) : handle[u] = d)
             => Done(d)' /\ \E u \in Temporaries(q) : handle'[u] = d
  BY <1>a, KeptLinks
<1>2. \A x \in Coro : awaiter[x] # c
  BY <1>1 DEF Ownership, UniqueOwner
<1>3. awaiter[c] = None
  BY <1>1 DEF Ownership, Linked, Alive
<1>4. ASSUME NEW d \in Coro, continuation'[d] # None
      PROVE  /\ Alive(d)'
             /\ \/ awaiter'[continuation'[d]] = d
                \/ /\ Done(d)'
                   /\ \E u \in Temporaries(continuation'[d]) : handle'[u] = d
  <2>1. /\ Alive(d) /\ continuation'[d] = continuation[d]
        /\ continuation[d] \in Coro
        /\ \/ awaiter[continuation[d]] = d
           \/ Done(d) /\ \E u \in Temporaries(continuation[d]) : handle[u] = d
    BY <1>1, <1>4 DEF Ownership, Linked, TypeOK
  <2>2. Alive(d)'
    BY <1>1, <2>1 DEF Alive
  <2> QED
    BY <1>1, <1>b, <2>1, <2>2
<1>5. ASSUME NEW x \in Coro, state'[x] = "await"
      PROVE  /\ awaiter'[x] # None
             /\ Alive(awaiter[x])' /\ ~Done(awaiter[x])'
             /\ continuation'[awaiter'[x]] = x
  <2>1. /\ state[x] = "await" /\ awaiter[x] \in Coro /\ awaiter[x] # None
        /\ awaiter[x] # c /\ state'[awaiter[x]] = state[awaiter[x]]
    BY <1>1, <1>2, <1>5 DEF Ownership, Linked, TypeOK
  <2> QED
    BY <1>1, <2>1 DEF Ownership, Linked, Alive, Done
<1>6. \A x \in Coro : awaiter'[x] # None => state'[x] \in {"await", "resume"}
  BY <1>1, <1>3 DEF Ownership, Linked
<1> QED
  BY <1>b, <1>4, <1>5, <1>6 DEF Linked, Temporaries

LEMMA AwaitContinuation ==
  ASSUME Ownership, NEW p \in Coro, NEW v \in Var, Await(p, v)
  PROVE  Linked'
<1>1. /\ state[p] = "active" /\ awaiter[p] = None
      /\ \A x \in Coro : awaiter'[x] = IF x = p THEN handle[v] ELSE awaiter[x]
      /\ \A c \in Coro : Alive(c)' <=> Alive(c)
  BY AwaitEffect
<1>a. \A u \in Temp : handle'[u] = handle[u]
  BY AwaitEffect, TempAssumption
  DEF Await, AwaitImmediate, AwaitSuspend, ConsumeTask, Accessible
<1>2. CASE AwaitImmediate(p, v)
  <2>1. /\ continuation' = continuation /\ state'[p] = "resume"
        /\ \A c \in Coro \ {p} : state'[c] = state[c]
    BY <1>2 DEF AwaitImmediate, Ownership, TypeOK
  <2>2. /\ \A u \in Temp : handle'[u] # None => Done(handle[u])'
        /\ \A d \in Coro : \A q \in Coro :
             Done(d) /\ (\E u \in Temporaries(q) : handle[u] = d)
               => Done(d)' /\ \E u \in Temporaries(q) : handle'[u] = d
    BY <1>1, <1>a, <2>1, KeptLinks
  <2>3. ASSUME NEW d \in Coro, continuation'[d] # None
        PROVE  /\ Alive(d)'
               /\ \/ awaiter'[continuation'[d]] = d
                  \/ /\ Done(d)'
                     /\ \E u \in Temporaries(continuation'[d]) : handle'[u] = d
    <3>1. /\ Alive(d) /\ continuation'[d] = continuation[d]
          /\ continuation[d] \in Coro
          /\ \/ awaiter[continuation[d]] = d
             \/ Done(d) /\ \E u \in Temporaries(continuation[d]) : handle[u] = d
      BY <2>1, <2>3 DEF Ownership, Linked, TypeOK
    <3>2. CASE awaiter[continuation[d]] = d
      BY <1>1, <3>1, <3>2, DistinctAssumption
    <3> QED
      BY <1>1, <2>2, <3>1, <3>2
  <2>4. ASSUME NEW x \in Coro, state'[x] = "await"
        PROVE  /\ awaiter'[x] # None
               /\ Alive(awaiter[x])' /\ ~Done(awaiter[x])'
               /\ continuation'[awaiter'[x]] = x
    <3>1. /\ x # p /\ state[x] = "await" /\ awaiter[x] \in Coro
          /\ awaiter[x] # None /\ awaiter'[x] = awaiter[x]
      BY <1>1, <2>1, <2>4 DEF Ownership, Linked, TypeOK
    <3>2. ~Done(awaiter[x])'
      BY <2>1, <3>1 DEF Ownership, Linked, Done
    <3> QED
      BY <1>1, <2>1, <3>1, <3>2 DEF Ownership, Linked
  <2>5. \A x \in Coro : awaiter'[x] # None => state'[x] \in {"await", "resume"}
    BY <1>1, <2>1 DEF Ownership, Linked
  <2> QED
    BY <2>2, <2>3, <2>4, <2>5 DEF Linked, Temporaries
<1>3. CASE AwaitSuspend(p, v)
  <2> DEFINE c == handle[v]
  <2>1. c \in Coro /\ Resumable(c) /\ c # p
    <3>1. c # None /\ Resumable(c)
      BY <1>3, SuspendsForResumable
    <3> QED
      BY <1>1, <3>1 DEF Resumable, Ownership, TypeOK
  <2>2. /\ state'[p] = "await" /\ state'[c] = Entered(c)
        /\ \A d \in Coro \ {p, c} : state'[d] = state[d]
        /\ \A d \in Coro : continuation'[d] = IF d = c THEN p ELSE continuation[d]
    BY <1>3, <2>1 DEF AwaitSuspend, Connected, Ownership, TypeOK
  <2>3. \A x \in Coro : awaiter[x] # c
    BY <2>1, DistinctAssumption DEF Ownership, UniqueOwner
  <2>4. state'[c] \notin {"unborn", "dead", "final"}
    BY <2>1, <2>2 DEF Resumable, Entered
  <2>5. awaiter[c] # None => state'[c] = "resume"
    BY <2>1, <2>2 DEF Ownership, Linked, Resumable, Entered
  <2>6. state'[c] # "await"
    BY <2>2 DEF Entered
  <2> HIDE DEF c
  <2>7. ASSUME NEW x \in Coro, state'[x] = "await"
        PROVE  /\ awaiter'[x] # None
               /\ x # p => Alive(awaiter[x])' /\ ~Done(awaiter[x])'
               /\ x = p => awaiter'[x] = c
               /\ continuation'[awaiter'[x]] = x
    <3>1. CASE x = p
      BY <1>1, <2>1, <2>2, <3>1, DistinctAssumption DEF c
    <3>2. CASE x # p
      <4>1. state[x] = "await" /\ awaiter[x] # None /\ awaiter[x] \in Coro
        BY <2>2, <2>6, <2>7, <3>2 DEF Ownership, Linked, TypeOK
      <4>2. awaiter'[x] = awaiter[x] /\ awaiter[x] # c
        BY <1>1, <2>3, <3>2
      <4>3. /\ continuation[awaiter[x]] = x
            /\ Alive(awaiter[x]) /\ ~Done(awaiter[x])
        BY <4>1 DEF Ownership, Linked
      <4>4. Alive(awaiter[x])' /\ ~Done(awaiter[x])'
        BY <1>1, <2>2, <4>1, <4>2, <4>3 DEF Done, Alive
      <4> QED
        BY <2>2, <3>2, <4>1, <4>2, <4>3, <4>4
    <3> QED
      BY <3>1, <3>2
  <2>a. \A d \in Coro : state[d] = "final" => state'[d] = "final"
    BY <1>1, <2>1, <2>2 DEF Resumable
  <2>b. /\ \A u \in Temp : handle'[u] # None => Done(handle[u])'
        /\ \A d \in Coro : \A q \in Coro :
             Done(d) /\ (\E u \in Temporaries(q) : handle[u] = d)
               => Done(d)' /\ \E u \in Temporaries(q) : handle'[u] = d
    BY <1>a, <2>a, KeptLinks
  <2>8. ASSUME NEW d \in Coro, continuation'[d] # None
        PROVE  /\ Alive(d)'
               /\ \/ awaiter'[continuation'[d]] = d
                  \/ /\ Done(d)'
                     /\ \E u \in Temporaries(continuation'[d]) : handle'[u] = d
    <3>1. CASE d = c
      BY <1>1, <2>2, <2>4, <3>1 DEF c, Alive
    <3>2. CASE d # c
      <4>1. /\ continuation'[d] = continuation[d] /\ continuation[d] \in Coro
            /\ Alive(d)'
            /\ \/ awaiter[continuation[d]] = d
               \/ Done(d) /\ \E u \in Temporaries(continuation[d]) : handle[u] = d
        BY <1>1, <2>2, <2>8, <3>2 DEF Ownership, Linked, TypeOK
      <4>2. CASE awaiter[continuation[d]] = d
        BY <1>1, <4>1, <4>2, DistinctAssumption
      <4> QED
        BY <2>b, <4>1, <4>2
    <3> QED
      BY <3>1, <3>2
  <2>9. \A x \in Coro : awaiter'[x] # None => state'[x] \in {"await", "resume"}
    BY <1>1, <2>2, <2>5, <2>1 DEF Ownership, Linked
  <2>10. ASSUME NEW x \in Coro, state'[x] = "await"
         PROVE  Alive(awaiter[x])' /\ ~Done(awaiter[x])'
    <3>1. CASE x = p
      BY <2>4, <2>7, <2>10, <3>1 DEF Alive, Done
    <3> QED
      BY <2>7, <2>10, <3>1
  <2> QED
    BY <2>7, <2>8, <2>9, <2>10, <2>b DEF Linked, Temporaries
<1> QED
  BY <1>2, <1>3 DEF Await

(***************************************************************************)
(* The steps that take frames out, and the theorem.                        *)
(***************************************************************************)

LEMMA DestroyKeeps ==
  ASSUME Ownership, NEW v \in Var, Destroy(v)
  PROVE  UniqueOwner' /\ NoLeak' /\ Linked'
<1> DEFINE D == Subtree(handle[v])
<1>1. /\ Detached(D)
      /\ \A x \in Coro : awaiter[x] \in D => x \in D
      /\ \A c \in Coro : c \notin D => state'[c] = state[c]
  BY DestroyDetaches
<1> HIDE DEF D
<1>2. \A c \in Coro : c \notin D => (Alive(c)' <=> Alive(c))
  BY <1>1 DEF Alive
<1>3. \A x \in Coro : x \notin D /\ state'[x] = "await" =>
        /\ state[x] = "await" /\ awaiter[x] \notin D
        /\ state'[awaiter[x]] # "final"
  BY <1>1 DEF Ownership, Linked, TypeOK, Done
<1>4. \A x \in Coro : x \notin D /\ awaiter'[x] # None
                        => state'[x] \in {"await", "resume"}
  BY <1>1 DEF Detached, Cut, Ownership, Linked
<1>5. \A x \in Coro : x \notin D /\ state[x] = "final" => state'[x] = "final"
  BY <1>1
<1> QED
  BY <1>1, <1>2, <1>3, <1>4, <1>5, DetachedUnique, DetachedRooted,
     DetachedContinuation DEF Detached

LEMMA MoveContinuation ==
  ASSUME Ownership, NEW v \in Var, NEW w \in Var, MoveAssign(v, w)
  PROVE  Linked'
<1> DEFINE D == Subtree(handle[v])
<1>a. v \notin Temp /\ w \notin Temp
  BY DEF MoveAssign, Accessible
<1>1. /\ Cut(D)
      /\ \A x \in Coro : awaiter[x] \in D => x \in D
      /\ \A c \in Coro : c \notin D => state'[c] = state[c]
  BY <1>a, MoveEffect, TempAssumption DEF Cut
<1> HIDE DEF D
<1>2. \A c \in Coro : c \notin D => (Alive(c)' <=> Alive(c))
  BY <1>1 DEF Alive
<1>3. \A x \in Coro : x \notin D /\ state'[x] = "await" =>
        /\ state[x] = "await" /\ awaiter[x] \notin D
        /\ state'[awaiter[x]] # "final"
  BY <1>1 DEF Ownership, Linked, TypeOK, Done
<1>4. \A x \in Coro : x \notin D /\ awaiter'[x] # None
                        => state'[x] \in {"await", "resume"}
  BY <1>1 DEF Cut, Ownership, Linked
<1>5. \A x \in Coro : x \notin D /\ state[x] = "final" => state'[x] = "final"
  BY <1>1
<1> QED
  BY <1>1, <1>2, <1>3, <1>4, <1>5, DetachedContinuation

LEMMA EndAwaitersKeeps ==
  ASSUME Ownership, NEW p \in Coro, Running(p), EndAwaiters(p)
  PROVE  UniqueOwner' /\ NoLeak' /\ Linked'
<1> DEFINE D == AwaitersOf(p)
<1>1. /\ Detached(D)
      /\ p \notin D /\ state'[p] = "active" /\ awaiter'[p] = None
      /\ \A x \in Coro : awaiter[x] \in D => x \in D \cup {p}
      /\ \A c \in Coro : c \notin D \cup {p} => state'[c] = state[c]
  BY EndAwaitersDetaches
<1> HIDE DEF D
<1>2. state[p] \in {"active", "resume"}
  BY DEF Running
<1>3. \A c \in Coro : c \notin D => (Alive(c)' <=> Alive(c))
  BY <1>1, <1>2 DEF Alive
<1>4. ASSUME NEW x \in Coro, x \notin D, state'[x] = "await"
      PROVE  /\ state[x] = "await" /\ awaiter[x] \notin D
             /\ state'[awaiter[x]] # "final"
  <2>1. x # p /\ state[x] = "await" /\ awaiter[x] \notin D
    BY <1>1, <1>4
  <2>2. awaiter[x] \in Coro /\ state[awaiter[x]] # "final"
    BY <2>1 DEF Ownership, Linked, TypeOK, Done
  <2> QED
    BY <1>1, <2>1, <2>2
<1>5. \A x \in Coro : x \notin D /\ awaiter'[x] # None
                        => state'[x] \in {"await", "resume"}
  BY <1>1 DEF Detached, Cut, Ownership, Linked
<1>6. \A x \in Coro : x \notin D /\ state[x] = "final" => state'[x] = "final"
  BY <1>1, <1>2
<1> QED
  BY <1>1, <1>3, <1>4, <1>5, <1>6, DetachedUnique, DetachedRooted,
     DetachedContinuation DEF Detached

\* An Awaiter that is kept owns what it owned, in the same frame.
LEMMA KeepAwaiterEffect ==
  ASSUME Ownership, NEW p \in Coro, state[p] = "resume", awaiter[p] # None,
         NEW v \in Temporaries(p), KeepAwaiter(p, v)
  PROVE  /\ v \in Temp /\ v \in Var /\ Home[v] = p
         /\ handle[v] = None
         /\ \A u \in Var : handle'[u] = IF u = v THEN awaiter[p] ELSE handle[u]
         /\ \A x \in Coro : awaiter'[x] = IF x = p THEN None ELSE awaiter[x]
         /\ \A c \in Coro : state'[c] = IF c = p THEN "active" ELSE state[c]
         /\ continuation' = continuation
         /\ \A c \in Coro : Alive(c)' <=> Alive(c)
         /\ \A x, d \in Coro : Owns(x, d)' <=> Owns(x, d)
<1>1. v \in Temp /\ v \in Var /\ Home[v] = p
  BY TempAssumption DEF Temporaries
<1>2. /\ handle[v] = None
      /\ \A u \in Var : handle'[u] = IF u = v THEN awaiter[p] ELSE handle[u]
      /\ \A x \in Coro : awaiter'[x] = IF x = p THEN None ELSE awaiter[x]
      /\ \A c \in Coro : state'[c] = IF c = p THEN "active" ELSE state[c]
      /\ continuation' = continuation
  BY <1>1 DEF KeepAwaiter, Ownership, TypeOK
<1>3. \A c \in Coro : Alive(c)' <=> Alive(c)
  BY <1>2 DEF Alive
<1>4. ASSUME NEW x \in Coro, NEW d \in Coro
      PROVE  Owns(x, d)' <=> Owns(x, d)
  <2>1. Owns(x, d) => Owns(x, d)'
    BY <1>1, <1>2, DistinctAssumption DEF Owns
  <2>2. Owns(x, d)' => Owns(x, d)
    BY <1>1, <1>2, DistinctAssumption DEF Owns
  <2> QED
    BY <2>1, <2>2
<1> QED
  BY <1>1, <1>2, <1>3, <1>4

LEMMA KeepAwaiterKeeps ==
  ASSUME Ownership, NEW p \in Coro, state[p] = "resume", awaiter[p] # None,
         Done(awaiter[p]), NEW v \in Temporaries(p), KeepAwaiter(p, v)
  PROVE  UniqueOwner' /\ NoLeak' /\ Linked'
<1>1. /\ v \in Temp /\ v \in Var /\ Home[v] = p
      /\ handle[v] = None
      /\ \A u \in Var : handle'[u] = IF u = v THEN awaiter[p] ELSE handle[u]
      /\ \A x \in Coro : awaiter'[x] = IF x = p THEN None ELSE awaiter[x]
      /\ \A c \in Coro : state'[c] = IF c = p THEN "active" ELSE state[c]
      /\ continuation' = continuation
      /\ \A c \in Coro : Alive(c)' <=> Alive(c)
      /\ \A x, d \in Coro : Owns(x, d)' <=> Owns(x, d)
  BY KeepAwaiterEffect
<1>2. UniqueOwner'
  <2>1. /\ \A u, x \in Var :
             handle'[u] = handle'[x] => u = x \/ handle'[u] = None
        /\ \A x, q \in Coro :
             awaiter'[x] = awaiter'[q] => x = q \/ awaiter'[x] = None
        /\ \A u \in Var, x \in Coro :
             handle'[u] = awaiter'[x] => handle'[u] = None
    BY <1>1, DistinctAssumption DEF Ownership, TypeOK, UniqueOwner
  <2>2. ASSUME NEW c \in Coro
        PROVE  ((\E u \in Var : handle'[u] = c) \/ \E x \in Coro : awaiter'[x] = c)
               <=> ((\E u \in Var : handle[u] = c) \/ \E x \in Coro : awaiter[x] = c)
    <3>1. \A u \in Var : handle'[u] = c <=> handle[u] = c \/ (u = v /\ awaiter[p] = c)
      BY <1>1, DistinctAssumption
    <3>2. \A x \in Coro : awaiter'[x] = c <=> awaiter[x] = c /\ x # p
      BY <1>1, DistinctAssumption
    <3> QED
      BY <1>1, <3>1, <3>2
  <2> QED
    BY <1>1, <2>1, <2>2 DEF UniqueOwner, Ownership
<1>3. ASSUME NEW S \in SUBSET Coro,
             \A u \in Var : Home[u] = Main /\ handle'[u] # None
                              => handle'[u] \in S,
             ClosedUnderOwns(S)'
      PROVE  \A d \in Coro : Alive(d)' => d \in S
  <2>1. \A u \in Var : Home[u] = Main /\ handle[u] # None => handle[u] \in S
    BY <1>1, <1>3, DistinctAssumption
  <2>2. ClosedUnderOwns(S)
    BY <1>1, <1>3 DEF ClosedUnderOwns
  <2> QED
    BY <1>1, <2>1, <2>2 DEF Ownership, NoLeak
<1>4. Linked'
  <2>1. \A c \in Coro : Done(c)' <=> Done(c)
    BY <1>1 DEF Done
  <2>2. awaiter[p] \in Coro
    BY DEF Ownership, TypeOK
  <2>3. ASSUME NEW x \in Coro, state'[x] = "await"
        PROVE  /\ awaiter'[x] # None
               /\ Alive(awaiter[x])' /\ ~Done(awaiter[x])'
               /\ continuation'[awaiter'[x]] = x
    <3>1. /\ x # p /\ state[x] = "await" /\ awaiter[x] \in Coro
          /\ awaiter[x] # None /\ awaiter'[x] = awaiter[x]
          /\ Alive(awaiter[x]) /\ ~Done(awaiter[x])
          /\ continuation[awaiter[x]] = x
      BY <1>1, <2>3 DEF Ownership, Linked, TypeOK
    <3> QED
      BY <1>1, <2>1, <3>1
  <2>4. ASSUME NEW d \in Coro, continuation'[d] # None
        PROVE  /\ Alive(d)'
               /\ \/ awaiter'[continuation'[d]] = d
                  \/ /\ Done(d)'
                     /\ \E u \in Temporaries(continuation'[d]) : handle'[u] = d
    <3>1. /\ Alive(d) /\ continuation'[d] = continuation[d]
          /\ continuation[d] \in Coro
          /\ \/ awaiter[continuation[d]] = d
             \/ Done(d) /\ \E u \in Temporaries(continuation[d]) : handle[u] = d
      BY <1>1, <2>4 DEF Ownership, Linked, TypeOK
    <3>2. CASE awaiter[continuation[d]] = d
      <4>1. CASE continuation[d] = p
        BY <1>1, <2>1, <3>1, <3>2, <4>1
      <4>2. CASE continuation[d] # p
        BY <1>1, <3>1, <3>2, <4>2
      <4> QED
        BY <4>1, <4>2
    <3>3. CASE Done(d) /\ \E u \in Temporaries(continuation[d]) : handle[u] = d
      <4>1. PICK u \in Temporaries(continuation[d]) : handle[u] = d
        BY <3>3
      <4>2. u \in Var /\ handle'[u] = d
        BY <1>1, <4>1, TempAssumption, DistinctAssumption DEF Temporaries
      <4> QED
        BY <1>1, <2>1, <3>1, <3>3, <4>1, <4>2
    <3> QED
      BY <3>1, <3>2, <3>3
  <2>5. \A x \in Coro : awaiter'[x] # None => state'[x] \in {"await", "resume"}
    BY <1>1 DEF Ownership, Linked
  <2>6. ASSUME NEW u \in Temp, handle'[u] # None
        PROVE  Done(handle[u])'
    <3>1. PICK c \in Coro : c = handle'[u] /\ Done(c)
      BY <1>1, <2>2, <2>6, TempAssumption DEF Ownership, Linked, TypeOK
    <3>2. Done(c)'
      BY <2>1, <3>1
    <3> QED
      BY <3>1, <3>2 DEF Done
  <2> QED
    BY <2>3, <2>4, <2>5, <2>6 DEF Linked, Temporaries
<1> QED
  BY <1>2, <1>3, <1>4 DEF NoLeak

LEMMA FinalSuspendKeeps ==
  ASSUME Ownership, NEW p \in Coro, Executing(p), FinalSuspend(p)
  PROVE  UniqueOwner' /\ NoLeak' /\ Linked'
<1> DEFINE D == LocalsOf(p)
           q == continuation[p]
<1>1. /\ Detached(D)
      /\ \A x \in Coro : awaiter[x] \in D => x \in D
      /\ p \notin D /\ q \notin D \cup {p}
      /\ state'[p] = "final"
      /\ q # None => state'[q] = "resume"
      /\ \A c \in Coro : c \notin D \cup {p, q} => state'[c] = state[c]
  BY FinalSuspendDetaches
<1>2. /\ state[p] = "active" /\ awaiter[p] = None
      /\ q \in Coro \cup {None}
      /\ q # None => state[q] \in {"await", "resume"}
  BY ContinuationAwaits DEF Executing, Ownership, Linked, TypeOK
<1> HIDE DEF D, q
<1>3. \A c \in Coro : c \notin D => (Alive(c)' <=> Alive(c))
  BY <1>1, <1>2, DistinctAssumption DEF Alive
<1>4. ASSUME NEW x \in Coro, x \notin D, state'[x] = "await"
      PROVE  /\ state[x] = "await" /\ awaiter[x] \notin D
             /\ state'[awaiter[x]] # "final"
  <2>1. x # p /\ x # q /\ state[x] = "await"
    BY <1>1, <1>2, <1>4, DistinctAssumption
  <2>2. /\ awaiter[x] \in Coro /\ state[awaiter[x]] # "final"
        /\ continuation[awaiter[x]] = x
    BY <2>1 DEF Ownership, Linked, TypeOK, Done
  <2>3. awaiter[x] # p /\ awaiter[x] \notin D
    BY <1>1, <1>4, <2>1, <2>2 DEF q
  <2> QED
    BY <1>1, <1>2, <2>1, <2>2, <2>3, DistinctAssumption
<1>5. \A x \in Coro : x \notin D /\ awaiter'[x] # None
                        => state'[x] \in {"await", "resume"}
  BY <1>1, <1>2, DistinctAssumption DEF Detached, Cut, Ownership, Linked
<1>6. \A x \in Coro : x \notin D /\ state[x] = "final" => state'[x] = "final"
  BY <1>1, <1>2, DistinctAssumption
<1> QED
  BY <1>1, <1>3, <1>4, <1>5, <1>6, DetachedUnique, DetachedRooted,
     DetachedContinuation DEF Detached

\* A step that may change where coroutines are, but neither creates, destroys,
\* completes nor suspends one in co_await.
LEMMA MotionKeeps ==
  ASSUME Ownership, UNCHANGED <<handle, awaiter, continuation>>,
         \A c \in Coro : Alive(c)' <=> Alive(c),
         \A c \in Coro : awaiter[c] # None => state'[c] \in {"await", "resume"},
         \A c \in Coro : state'[c] = "await" => state[c] = "await",
         \A c \in Coro : state'[c] = "final" <=> state[c] = "final"
  PROVE  UniqueOwner' /\ NoLeak' /\ Linked'
BY QuietKeeps, QuietContinuation

LEMMA StepOwnership ==
  ASSUME Ownership, [Next]_vars
  PROVE  UniqueOwner' /\ NoLeak' /\ Linked'
<1> DEFINE Keeps == UniqueOwner' /\ NoLeak' /\ Linked'
<1> USE DEF Ownership
<1>1. CASE UNCHANGED <<handle, awaiter, continuation, state>>
  BY <1>1, MotionKeeps DEF Alive, Linked
<1>2. ASSUME NEW v \in Var, NEW c \in Coro, Create(v, c)
      PROVE  Keeps
  BY <1>2, CreateKeeps, CreateContinuation
<1>3. ASSUME NEW v \in Var, NEW w \in Var, MoveAssign(v, w)
      PROVE  Keeps
  BY <1>3, MoveKeeps, MoveContinuation
<1>4. ASSUME NEW v \in Var, Destroy(v)
      PROVE  Keeps
  BY <1>4, DestroyKeeps
<1>5. ASSUME NEW v \in Var, Start(v)
      PROVE  Keeps
  <2>1. CASE StartEmpty(v) \/ StartDone(v)
    BY <1>1, <2>1 DEF StartEmpty, StartDone, Raise, vars
  <2>2. CASE StartResume(v)
    <3>1. /\ UNCHANGED <<handle, awaiter, continuation>>
          /\ handle[v] \in Coro /\ Resumable(handle[v])
          /\ \A c \in Coro : state'[c] = IF c = handle[v] THEN Entered(c)
                                         ELSE state[c]
      BY <2>2 DEF StartResume, TypeOK
    <3>2. \A c \in Coro : Alive(c)' <=> Alive(c)
      BY <3>1 DEF Alive, Resumable, Entered
    <3>3. \A c \in Coro : awaiter[c] # None => state'[c] \in {"await", "resume"}
      BY <3>1 DEF Linked, Resumable, Entered
    <3>4. \A c \in Coro : /\ state'[c] = "await" => state[c] = "await"
                          /\ state'[c] = "final" <=> state[c] = "final"
      BY <3>1 DEF Resumable, Entered
    <3> QED
      BY <3>1, <3>2, <3>3, <3>4, MotionKeeps
  <2> QED
    BY <1>5, <2>1, <2>2 DEF Start
<1>6. ASSUME NEW v \in Var, Result(v)
      PROVE  Keeps
  BY <1>1, <1>6
  DEF Result, ResultUnavailable, ResultKept, ResultMoved, ResultAvailable,
      Raise
<1>7. ASSUME NEW v \in Var, NEW p \in Coro, Await(p, v)
      PROVE  Keeps
  BY <1>7, AwaitKeeps, AwaitContinuation
<1>8. ASSUME NEW p \in Coro, AwaitResume(p)
      PROVE  Keeps
  <2>1. CASE AwaitResumeEmpty(p)
    <3>1. /\ UNCHANGED <<handle, awaiter, continuation>>
          /\ awaiter[p] = None /\ state[p] = "resume"
          /\ \A c \in Coro : state'[c] = IF c = p THEN "active" ELSE state[c]
      BY <2>1 DEF AwaitResumeEmpty, TypeOK
    <3> QED
      BY <3>1, MotionKeeps DEF Alive, Linked
  <2>2. CASE AwaitResumeOwned(p)
    <3>1. awaiter[p] # None /\ state[p] = "resume" /\ Running(p)
      BY <2>2 DEF AwaitResumeOwned, Running
    <3>2. CASE EndAwaiters(p)
      BY <3>1, <3>2, EndAwaitersKeeps
    <3>3. ASSUME NEW v \in Temporaries(p), Done(awaiter[p]), KeepAwaiter(p, v)
          PROVE  Keeps
      BY <3>1, <3>3, KeepAwaiterKeeps
    <3> QED
      BY <2>2, <3>2, <3>3 DEF AwaitResumeOwned
  <2> QED
    BY <1>8, <2>1, <2>2 DEF AwaitResume
<1>9. ASSUME NEW p \in Coro, Return(p) \/ Unhandled(p)
      PROVE  Keeps
  BY <1>9, FinalSuspendKeeps DEF Return, Unhandled
<1>10. ASSUME NEW p \in Coro, Throw(p) \/ Catch(p) \/ EndExpression(p)
       PROVE  Keeps
  <2>1. CASE Throw(p)
    BY <1>1, <2>1 DEF Throw
  <2>2. CASE Catch(p) \/ EndExpression(p)
    BY <2>2, EndAwaitersKeeps DEF Catch, EndExpression, Executing, Running
  <2> QED
    BY <1>10, <2>1, <2>2
<1>11. ASSUME NEW p \in Coro, Suspend(p)
       PROVE  Keeps
  <2>1. /\ UNCHANGED <<handle, awaiter, continuation>>
        /\ state[p] = "active" /\ state'[p] \in {"yield", "event"}
        /\ \A c \in Coro \ {p} : state'[c] = state[c]
    BY <1>11, LeafAssumption DEF Suspend, Executing, TypeOK
  <2> QED
    BY <2>1, MotionKeeps DEF Alive, Linked
<1>12. ASSUME NEW p \in Coro, Wake(p)
       PROVE  Keeps
  <2>1. /\ UNCHANGED <<handle, awaiter, continuation>>
        /\ state[p] = "event" /\ state'[p] = "active"
        /\ \A c \in Coro \ {p} : state'[c] = state[c]
    BY <1>12 DEF Wake, TypeOK
  <2> QED
    BY <2>1, MotionKeeps DEF Alive, Linked
<1>13. CASE UNCHANGED vars
  BY <1>1, <1>13 DEF vars
<1> QED
  BY <1>2, <1>3, <1>4, <1>5, <1>6, <1>7, <1>8, <1>9, <1>10, <1>11, <1>12, <1>13
  DEF Next, TaskStep, BodyStep

LEMMA InitOwnership == Init => Ownership
<1> SUFFICES ASSUME Init PROVE Ownership
  OBVIOUS
<1>1. TypeOK
  BY InitType
<1>2. UniqueOwner /\ NoLeak /\ Linked
  BY DistinctAssumption, TempAssumption
  DEF Init, UniqueOwner, NoLeak, Linked, Alive
<1> QED
  BY <1>1, <1>2 DEF Ownership

LEMMA OwnershipInvariant == Spec => []Ownership
<1>1. Ownership /\ [Next]_vars => Ownership'
  BY StepType, StepOwnership DEF Ownership
<1> QED
  BY <1>1, InitOwnership, PTL DEF Spec

\* No frame has two owners, none that exists has none, and no Task or Awaiter
\* refers to a frame that was destroyed.
THEOREM FramesHaveOneOwner == Spec => []UniqueOwner
BY OwnershipInvariant, PTL DEF Ownership

\* Every frame that exists is freed by destroying the main program's Tasks.
THEOREM NothingLeaks == Spec => []NoLeak
BY OwnershipInvariant, PTL DEF Ownership

\* What owns a frame is alive: the frames that Main or a living frame holds are
\* closed under ownership, so by NoLeak they are all there are.
LEMMA OwnersLive ==
  ASSUME Ownership, NEW x \in Coro, NEW d \in Coro, Owns(x, d)
  PROVE  Alive(x)
<1> DEFINE S == {c \in Coro : /\ Alive(c)
                               /\ \/ \E v \in Var : Home[v] = Main /\ handle[v] = c
                                  \/ \E y \in Coro : Alive(y) /\ Owns(y, c)}
<1>1. \A y, c \in Coro : Owns(y, c) => Alive(c)
  BY DEF Owns, Ownership, UniqueOwner
<1>2. S \in SUBSET Coro
  OBVIOUS
<1>3. \A v \in Var : Home[v] = Main /\ handle[v] # None => handle[v] \in S
  BY DEF Ownership, TypeOK, UniqueOwner
<1>4. ClosedUnderOwns(S)
  BY <1>1 DEF ClosedUnderOwns
<1>5. d \in S
  <2> HIDE DEF S
  <2> QED
    BY <1>1, <1>2, <1>3, <1>4 DEF Ownership, NoLeak
<1>6. CASE \E v \in Var : Home[v] = Main /\ handle[v] = d
  BY <1>6, DistinctAssumption DEF Owns, Ownership, UniqueOwner
<1>7. CASE \E y \in Coro : Alive(y) /\ Owns(y, d)
  <2>1. PICK y \in Coro : Alive(y) /\ Owns(y, d)
    BY <1>7
  <2>2. x = y
    BY <2>1, DistinctAssumption DEF Owns, Ownership, UniqueOwner
  <2> QED
    BY <2>1, <2>2
<1> QED
  BY <1>5, <1>6, <1>7

LEMMA LinkedSound == Ownership => ContinuationSound
<1> SUFFICES ASSUME Ownership PROVE ContinuationSound
  OBVIOUS
<1>1. ASSUME NEW c \in Coro, continuation[c] # None
      PROVE  Alive(continuation[c])
  <2>1. /\ continuation[c] \in Coro
        /\ \/ awaiter[continuation[c]] = c
           \/ \E v \in Temporaries(continuation[c]) : handle[v] = c
    BY <1>1 DEF Ownership, Linked, TypeOK
  <2>2. Owns(continuation[c], c)
    BY <2>1, TempAssumption DEF Owns, Temporaries
  <2> QED
    BY <2>1, <2>2, OwnersLive
<1> QED
  BY <1>1 DEF ContinuationSound, Ownership, Linked

\* A coroutine that waits will be resumed by what it waits for, which can still
\* complete; a promise names no coroutine but one that awaits it, or one that
\* lives and still holds it, completed, in the same full expression.
THEOREM ContinuationsAreSound == Spec => []ContinuationSound
BY OwnershipInvariant, LinkedSound, PTL

(***************************************************************************)
(* Task implements Owners.                                                 *)
(***************************************************************************)

LEMMA LinksAre ==
  /\ \A e : e \in Links <=>
       \/ \E v \in Var : handle[v] \in Coro /\ e = <<Home[v], handle[v]>>
       \/ \E p \in Coro : awaiter[p] \in Coro /\ e = <<p, awaiter[p]>>
  /\ \A e : e \in Links' <=>
       \/ \E v \in Var : handle'[v] \in Coro /\ e = <<Home[v], handle'[v]>>
       \/ \E p \in Coro : awaiter'[p] \in Coro /\ e = <<p, awaiter'[p]>>
BY HomeAssumption DEF Links

LEMMA LinksOwn ==
  ASSUME NEW x \in Coro, NEW d \in Coro
  PROVE  <<x, d>> \in Links <=> Owns(x, d)
BY LinksAre DEF Owns

\* What hangs from f in Owners is what the destruction of f destroys.
LEMMA BelowIsSubtree ==
  ASSUME NEW f \in Coro
  PROVE  Forest!Below(f) = Subtree(f)
<1> DEFINE Under(S) == \A e \in Links : e[1] \in S => e[2] \in S
<1>1. ASSUME NEW S \in SUBSET Coro
      PROVE  Under(S) <=> ClosedUnderOwns(S)
  <2>1. ASSUME Under(S), NEW x \in S, NEW d \in Coro, Owns(x, d)
        PROVE  d \in S
    <3>1. <<x, d>> \in Links
      BY <2>1, LinksOwn
    <3>2. <<x, d>>[1] = x /\ <<x, d>>[2] = d
      OBVIOUS
    <3> QED
      BY <2>1, <3>1, <3>2
  <2>2. ASSUME ClosedUnderOwns(S), NEW e \in Links, e[1] \in S
        PROVE  e[2] \in S
    <3>1. PICK x \in Coro \cup {Main}, d \in Coro : e = <<x, d>>
      BY <2>2 DEF Links
    <3>2. x \in S /\ e[2] = d
      BY <2>2, <3>1
    <3>3. Owns(x, d)
      BY <2>2, <3>1, <3>2, LinksOwn
    <3> QED
      BY <2>2, <3>2, <3>3 DEF ClosedUnderOwns
  <2> QED
    BY <2>1, <2>2 DEF ClosedUnderOwns
<1>2. \A g : g \in Forest!Below(f) <=>
               g \in Coro /\ \A S \in SUBSET Coro : f \in S /\ Under(S) => g \in S
  BY DEF Forest!Below
<1> HIDE DEF Under
<1>3. \A g : g \in Subtree(f) <=>
        g \in Coro /\ \A S \in SUBSET Coro :
                        f \in S /\ ClosedUnderOwns(S) => g \in S
  BY DistinctAssumption DEF Subtree
<1> QED
  BY <1>1, <1>2, <1>3

\* What is owned is alive.
LEMMA SubtreeAlive ==
  ASSUME Ownership, NEW c \in Coro \cup {None}, c # None => Alive(c)
  PROVE  \A d \in Subtree(c) : Alive(d)
<1> SUFFICES ASSUME NEW d \in Subtree(c) PROVE Alive(d)
  OBVIOUS
<1>1. Subtree(c) \subseteq Coro /\ (c = None => Subtree(c) = {})
  BY SubtreeClosed
<1>2. d # c => \E x \in Coro : Owns(x, d)
  BY <1>1, SubtreeOwned
<1> QED
  BY <1>1, <1>2 DEF Owns, Ownership, UniqueOwner

LEMMA HeldAlive ==
  ASSUME Ownership
  PROVE  /\ \A v \in Var : handle[v] \in Coro \cup {None}
         /\ \A p \in Coro : awaiter[p] \in Coro \cup {None}
         /\ \A v \in Var : handle[v] # None => Alive(handle[v])
         /\ \A p \in Coro : awaiter[p] # None => Alive(awaiter[p])
         /\ \A v \in Var : \A d \in Subtree(handle[v]) : Alive(d)
         /\ \A p \in Coro : \A d \in Subtree(awaiter[p]) : Alive(d)
<1>1. /\ \A v \in Var : handle[v] \in Coro \cup {None}
      /\ \A p \in Coro : awaiter[p] \in Coro \cup {None}
  BY DEF Ownership, TypeOK
<1>2. /\ \A v \in Var : handle[v] # None => Alive(handle[v])
      /\ \A p \in Coro : awaiter[p] # None => Alive(awaiter[p])
  BY <1>1 DEF Ownership, UniqueOwner
<1> QED
  BY <1>1, <1>2, SubtreeAlive

\* No frame outside D is created or destroyed.
Outlive(D) ==
  \A c \in Coro \ D : state'[c] = state[c] \/ (Alive(c) /\ Alive(c)')

LEMMA OutliveLives ==
  ASSUME NEW D \in SUBSET Coro, Outlive(D),
         \A d \in D : Alive(d) /\ state'[d] = "dead"
  PROVE  /\ {c \in Coro : state'[c] # "unborn"} = {c \in Coro : state[c] # "unborn"}
         /\ {c \in Coro : Alive(c)'} = {c \in Coro : Alive(c)} \ D
BY DEF Outlive, Alive

\* A step that takes D out of the frames drops it from the forest.
LEMMA DetachedDrops ==
  ASSUME Ownership, NEW D, Detached(D), \A d \in D : Alive(d), Outlive(D)
  PROVE  /\ Forest!Drop(D)
         /\ {c \in Coro : state'[c] # "unborn"} = {c \in Coro : state[c] # "unborn"}
<1>1. /\ D \in SUBSET Coro /\ \A d \in D : Alive(d) /\ state'[d] = "dead"
      /\ \A v \in Var : handle'[v] = IF handle[v] \in D THEN None ELSE handle[v]
      /\ \A p \in Coro : awaiter'[p] = IF awaiter[p] \in D THEN None ELSE awaiter[p]
  BY DEF Detached, Cut
<1>2. /\ {c \in Coro : state'[c] # "unborn"} = {c \in Coro : state[c] # "unborn"}
      /\ {c \in Coro : Alive(c)'} = {c \in Coro : Alive(c)} \ D
  BY <1>1, OutliveLives
<1>3. ASSUME NEW e
      PROVE  e \in Links' <=> e \in Links /\ e[2] \notin D
  <2>1. ASSUME e \in Links'
        PROVE  e \in Links /\ e[2] \notin D
    <3>1. CASE \E v \in Var : handle'[v] \in Coro /\ e = <<Home[v], handle'[v]>>
      <4>1. PICK v \in Var : handle'[v] \in Coro /\ e = <<Home[v], handle'[v]>>
        BY <3>1
      <4> QED
        BY <1>1, <4>1, DistinctAssumption, LinksAre
    <3>2. CASE \E p \in Coro : awaiter'[p] \in Coro /\ e = <<p, awaiter'[p]>>
      <4>1. PICK p \in Coro : awaiter'[p] \in Coro /\ e = <<p, awaiter'[p]>>
        BY <3>2
      <4> QED
        BY <1>1, <4>1, DistinctAssumption, LinksAre
    <3> QED
      BY <2>1, <3>1, <3>2, LinksAre
  <2>2. ASSUME e \in Links, e[2] \notin D
        PROVE  e \in Links'
    <3>1. CASE \E v \in Var : handle[v] \in Coro /\ e = <<Home[v], handle[v]>>
      <4>1. PICK v \in Var : handle[v] \in Coro /\ e = <<Home[v], handle[v]>>
        BY <3>1
      <4> QED
        BY <1>1, <2>2, <4>1, LinksAre
    <3>2. CASE \E p \in Coro : awaiter[p] \in Coro /\ e = <<p, awaiter[p]>>
      <4>1. PICK p \in Coro : awaiter[p] \in Coro /\ e = <<p, awaiter[p]>>
        BY <3>2
      <4> QED
        BY <1>1, <2>2, <4>1, LinksAre
    <3> QED
      BY <2>2, <3>1, <3>2, LinksAre
  <2> QED
    BY <2>1, <2>2
<1>4. Links' = {e \in Links : e[2] \notin D}
  BY <1>3
<1> QED
  BY <1>2, <1>4 DEF Forest!Drop

LEMMA ForestStutters ==
  ASSUME UNCHANGED <<handle, awaiter>>, Outlive({})
  PROVE  UNCHANGED Forest!ovars
<1>1. Links' = Links
  BY DEF Links
<1> QED
  BY <1>1, OutliveLives DEF Forest!ovars

\* Dropping nothing is a stuttering step.
LEMMA DropsNothing ==
  ASSUME Forest!Drop({}),
         {c \in Coro : state'[c] # "unborn"} = {c \in Coro : state[c] # "unborn"}
  PROVE  UNCHANGED Forest!ovars
BY DEF Forest!Drop, Forest!ovars

LEMMA CallBegins ==
  ASSUME Ownership, NEW v \in Var, NEW c \in Coro, Create(v, c)
  PROVE  \E f \in Coro \ {d \in Coro : state[d] # "unborn"},
            p \in {d \in Coro : Alive(d)} \cup {Main} : Forest!Begin(f, p)
<1>1. /\ handle[v] = None /\ handle'[v] = c /\ awaiter' = awaiter
      /\ \A u \in Var : u # v => handle'[u] = handle[u]
      /\ state[c] = "unborn" /\ state'[c] = "start"
      /\ \A d \in Coro : d # c => state'[d] = state[d]
  BY DEF Create, Ownership, TypeOK
<1>2. Home[v] \in {d \in Coro : Alive(d)} \cup {Main}
  BY AccessibleHome DEF Create, Alive, Ownership
<1>3. /\ {d \in Coro : state'[d] # "unborn"}
           = {d \in Coro : state[d] # "unborn"} \cup {c}
      /\ {d \in Coro : Alive(d)'} = {d \in Coro : Alive(d)} \cup {c}
  BY <1>1 DEF Alive
<1>4. ASSUME NEW e
      PROVE  e \in Links' <=> e \in Links \/ e = <<Home[v], c>>
  BY <1>1, DistinctAssumption, LinksAre
<1>5. Links' = Links \cup {<<Home[v], c>>}
  BY <1>4
<1>6. Forest!Begin(c, Home[v])
  BY <1>1, <1>2, <1>3, <1>5 DEF Forest!Begin
<1> QED
  BY <1>1, <1>2, <1>6

LEMMA DestroyEnds ==
  ASSUME Ownership, NEW v \in Var, Destroy(v)
  PROVE  UNCHANGED Forest!ovars \/ \E f \in {c \in Coro : Alive(c)} : Forest!End(f)
<1> DEFINE D == Subtree(handle[v])
<1>1. Detached(D) /\ Outlive(D)
  BY DestroyDetaches DEF Outlive
<1>2. /\ Forest!Drop(D)
      /\ {c \in Coro : state'[c] # "unborn"} = {c \in Coro : state[c] # "unborn"}
  BY <1>1, HeldAlive, DetachedDrops
<1>3. CASE handle[v] = None
  BY <1>2, <1>3, SubtreeClosed, DropsNothing
<1>4. CASE handle[v] # None
  <2>1. handle[v] \in Coro /\ Alive(handle[v])
    BY <1>4, HeldAlive
  <2>2. Forest!End(handle[v])
    BY <1>2, <2>1, BelowIsSubtree DEF Forest!End
  <2> QED
    BY <2>1, <2>2
<1> QED
  BY <1>3, <1>4

\* What p holds, or part of it, ends without p.
LEMMA Releases ==
  ASSUME Ownership, NEW p \in Coro, Alive(p), NEW F \in SUBSET Coro,
         \A f \in F : Owns(p, f),
         NEW D, D = UNION {Subtree(f) : f \in F}, p \notin D,
         Detached(D), Outlive(D)
  PROVE  \E q \in {c \in Coro : Alive(c)} :
           \E G \in SUBSET {f \in Coro : <<q, f>> \in Links} :
             Forest!Release(q, G)
<1>1. \A f \in F : Alive(f)
  BY DEF Owns, Ownership, UniqueOwner
<1>2. \A d \in D : Alive(d)
  BY <1>1, SubtreeAlive
<1>3. /\ Forest!Drop(D)
      /\ {c \in Coro : state'[c] # "unborn"} = {c \in Coro : state[c] # "unborn"}
  BY <1>2, DetachedDrops
<1>4. D = UNION {Forest!Below(f) : f \in F}
  <2>1. \A f \in F : Forest!Below(f) = Subtree(f)
    BY BelowIsSubtree
  <2> QED
    BY <2>1
<1>5. F \in SUBSET {f \in Coro : <<p, f>> \in Links}
  BY LinksOwn
<1>6. p \in {c \in Coro : Alive(c)}
  OBVIOUS
<1>7. Forest!Release(p, F)
  BY <1>3, <1>4, <1>6 DEF Forest!Release
<1> QED
  BY <1>5, <1>6, <1>7

LEMMA HeldIsBelow ==
  ASSUME Ownership, NEW V \in SUBSET Var
  PROVE  HeldBy(V) = UNION {Subtree(f) : f \in {g \in Coro : \E u \in V : handle[u] = g}}
<1>1. \A u \in V : /\ handle[u] \in Coro \cup {None}
                   /\ handle[u] = None => Subtree(handle[u]) = {}
  BY SubtreeClosed DEF Ownership, TypeOK
<1>2. ASSUME NEW d
      PROVE  (\E u \in V : d \in Subtree(handle[u]))
               <=> \E f \in {g \in Coro : \E u \in V : handle[u] = g} :
                     d \in Subtree(f)
  <2>1. \A u \in V : d \in Subtree(handle[u]) => handle[u] \in Coro
    BY <1>1
  <2> QED
    BY <2>1
<1> QED
  BY <1>2 DEF HeldBy

LEMMA EndAwaitersReleases ==
  ASSUME Ownership, NEW p \in Coro, Running(p), EndAwaiters(p)
  PROVE  \E q \in {c \in Coro : Alive(c)} :
           \E G \in SUBSET {f \in Coro : <<q, f>> \in Links} :
             Forest!Release(q, G)
<1> DEFINE D == AwaitersOf(p)
           F == {g \in Coro : \E u \in Temporaries(p) : handle[u] = g}
           A == {g \in Coro : awaiter[p] = g}
<1>1. /\ Detached(D) /\ p \notin D /\ state'[p] = "active"
      /\ \A c \in Coro : c \notin D \cup {p} => state'[c] = state[c]
  BY EndAwaitersDetaches
<1>2. HeldBy(Temporaries(p)) = UNION {Subtree(f) : f \in F}
  <2>1. Temporaries(p) \in SUBSET Var
    BY TempAssumption DEF Temporaries
  <2> QED
    BY <2>1, HeldIsBelow
<1>3. Subtree(awaiter[p]) = UNION {Subtree(f) : f \in A}
  <2>1. /\ awaiter[p] \in Coro \cup {None}
        /\ awaiter[p] = None => Subtree(awaiter[p]) = {}
    BY SubtreeClosed DEF Ownership, TypeOK
  <2>2. ASSUME NEW d
        PROVE  d \in Subtree(awaiter[p]) <=> \E f \in A : d \in Subtree(f)
    BY <2>1
  <2> QED
    BY <2>2
<1>4. D = UNION {Subtree(f) : f \in F \cup A}
  BY <1>2, <1>3 DEF AwaitersOf
<1>5. \A f \in F \cup A : Owns(p, f)
  BY TempAssumption DEF Owns, Temporaries
<1>6. F \cup A \in SUBSET Coro /\ Alive(p)
  BY DEF Running, Alive
<1> HIDE DEF D, F, A
<1>7. Outlive(D)
  BY <1>1, <1>6 DEF Outlive, Alive
<1> QED
  BY <1>1, <1>4, <1>5, <1>6, <1>7, Releases

\* An Awaiter that is kept keeps what it owns in its place.
LEMMA KeepAwaiterStutters ==
  ASSUME Ownership, NEW p \in Coro, state[p] = "resume", awaiter[p] # None,
         NEW v \in Temporaries(p), KeepAwaiter(p, v)
  PROVE  UNCHANGED Forest!ovars
<1>1. /\ v \in Var /\ Home[v] = p /\ handle[v] = None
      /\ \A u \in Var : handle'[u] = IF u = v THEN awaiter[p] ELSE handle[u]
      /\ \A x \in Coro : awaiter'[x] = IF x = p THEN None ELSE awaiter[x]
      /\ \A c \in Coro : state'[c] = IF c = p THEN "active" ELSE state[c]
  BY KeepAwaiterEffect
<1>2. Outlive({})
  BY <1>1 DEF Outlive, Alive
<1>3. ASSUME NEW e
      PROVE  e \in Links' <=> e \in Links
  <2>1. (\E u \in Var : handle'[u] \in Coro /\ e = <<Home[u], handle'[u]>>)
          => e \in Links
    BY <1>1, LinksAre
  <2>2. (\E x \in Coro : awaiter'[x] \in Coro /\ e = <<x, awaiter'[x]>>)
          => e \in Links
    BY <1>1, DistinctAssumption, LinksAre
  <2>3. (\E u \in Var : handle[u] \in Coro /\ e = <<Home[u], handle[u]>>)
          => e \in Links'
    BY <1>1, DistinctAssumption, LinksAre
  <2>4. (\E x \in Coro : awaiter[x] \in Coro /\ e = <<x, awaiter[x]>>)
          => e \in Links'
    BY <1>1, LinksAre
  <2> QED
    BY <2>1, <2>2, <2>3, <2>4, LinksAre
<1>4. Links' = Links
  <2>1. Links' \subseteq Links /\ Links \subseteq Links'
    BY <1>3
  <2> QED
    BY <2>1
<1> QED
  BY <1>2, <1>4, OutliveLives DEF Forest!ovars

LEMMA FinalSuspendReleases ==
  ASSUME Ownership, NEW p \in Coro, Executing(p), FinalSuspend(p)
  PROVE  \E q \in {c \in Coro : Alive(c)} :
           \E G \in SUBSET {f \in Coro : <<q, f>> \in Links} :
             Forest!Release(q, G)
<1> DEFINE D == LocalsOf(p)
           q == continuation[p]
           V == {u \in Var : Home[u] = p}
           F == {g \in Coro : \E u \in V : handle[u] = g}
<1>1. /\ Detached(D) /\ p \notin D /\ q \notin D \cup {p}
      /\ state'[p] = "final"
      /\ q # None => state'[q] = "resume"
      /\ \A c \in Coro : c \notin D \cup {p, q} => state'[c] = state[c]
  BY FinalSuspendDetaches
<1>2. /\ state[p] = "active"
      /\ q \in Coro \cup {None}
      /\ q # None => state[q] \in {"await", "resume"}
  BY ContinuationAwaits DEF Executing, Ownership, TypeOK
<1>3. D = UNION {Subtree(f) : f \in F}
  <2>1. V \in SUBSET Var
    OBVIOUS
  <2> QED
    BY <2>1, HeldIsBelow DEF LocalsOf
<1>4. \A f \in F : Owns(p, f)
  BY DEF Owns
<1>5. F \in SUBSET Coro /\ Alive(p)
  BY <1>2 DEF Alive
<1> HIDE DEF D, q, F
<1>6. Outlive(D)
  BY <1>1, <1>2, DistinctAssumption DEF Outlive, Alive
<1> QED
  BY <1>1, <1>3, <1>4, <1>5, <1>6, Releases

\* co_await gives the frame of p what the Task owned.
LEMMA AwaitMoves ==
  ASSUME Ownership, NEW p \in Coro, NEW v \in Var, Await(p, v)
  PROVE  \/ UNCHANGED Forest!ovars
         \/ \E f \in {c \in Coro : Alive(c)}, h \in {c \in Coro : Alive(c)} \cup {Main} :
              Forest!Move(f, h)
<1>1. /\ state[p] = "active" /\ awaiter[p] = None
      /\ p \notin Subtree(handle[v])
      /\ \A u \in Var : handle'[u] = IF u = v THEN None ELSE handle[u]
      /\ \A x \in Coro : awaiter'[x] = IF x = p THEN handle[v] ELSE awaiter[x]
      /\ \A c \in Coro : Alive(c)' <=> Alive(c)
  BY AwaitEffect
<1>2. Outlive({})
  <2>1. CASE AwaitImmediate(p, v)
    BY <1>1, <2>1 DEF AwaitImmediate, Outlive, Alive, Ownership, TypeOK
  <2>2. CASE AwaitSuspend(p, v)
    BY <1>1, <2>2, SuspendsForResumable
    DEF AwaitSuspend, Resumable, Entered, Outlive, Alive, Ownership, TypeOK
  <2> QED
    BY <2>1, <2>2 DEF Await
<1>3. /\ {c \in Coro : state'[c] # "unborn"} = {c \in Coro : state[c] # "unborn"}
      /\ {c \in Coro : Alive(c)'} = {c \in Coro : Alive(c)}
  BY <1>2, OutliveLives
<1>4. CASE handle[v] = None
  <2>1. /\ \A u \in Var : handle'[u] = handle[u]
        /\ \A x \in Coro : awaiter'[x] = awaiter[x]
    BY <1>1, <1>4
  <2>2. ASSUME NEW e
        PROVE  e \in Links' <=> e \in Links
    BY <2>1, LinksAre
  <2>3. Links' = Links
    <3>1. Links' \subseteq Links /\ Links \subseteq Links'
      BY <2>2
    <3> QED
      BY <3>1
  <2> QED
    BY <1>3, <2>3 DEF Forest!ovars
<1>5. CASE handle[v] # None
  <2>1. PICK f \in Coro : f = handle[v] /\ Alive(f)
    BY <1>5, HeldAlive
  <2>2. p \notin Forest!Below(f) /\ Alive(p)
    BY <1>1, <2>1, BelowIsSubtree DEF Alive
  <2>3. /\ \A u \in Var : handle[u] = f => u = v
        /\ \A x \in Coro : awaiter[x] # f
    BY <2>1, DistinctAssumption DEF Ownership, UniqueOwner
  <2>4. ASSUME NEW e
        PROVE  e \in Links' <=> (e \in Links /\ e[2] # f) \/ e = <<p, f>>
    <3>1. ASSUME e \in Links'
          PROVE  (e \in Links /\ e[2] # f) \/ e = <<p, f>>
      <4>1. CASE \E u \in Var : handle'[u] \in Coro /\ e = <<Home[u], handle'[u]>>
        <5>1. PICK u \in Var : handle'[u] \in Coro /\ e = <<Home[u], handle'[u]>>
          BY <4>1
        <5>2. u # v /\ handle'[u] = handle[u]
          BY <1>1, <5>1, DistinctAssumption
        <5>3. handle[u] # f /\ e[2] = handle[u]
          BY <2>3, <5>1, <5>2
        <5> QED
          BY <5>1, <5>2, <5>3, LinksAre
      <4>2. CASE \E x \in Coro : awaiter'[x] \in Coro /\ e = <<x, awaiter'[x]>>
        <5>1. PICK x \in Coro : awaiter'[x] \in Coro /\ e = <<x, awaiter'[x]>>
          BY <4>2
        <5>2. CASE x = p
          BY <1>1, <2>1, <5>1, <5>2
        <5>3. CASE x # p
          <6>1. awaiter'[x] = awaiter[x] /\ e[2] = awaiter[x]
            BY <1>1, <5>1, <5>3
          <6> QED
            BY <2>3, <5>1, <6>1, LinksAre
        <5> QED
          BY <5>2, <5>3
      <4> QED
        BY <3>1, <4>1, <4>2, LinksAre
    <3>2. ASSUME e \in Links, e[2] # f
          PROVE  e \in Links'
      <4>1. CASE \E u \in Var : handle[u] \in Coro /\ e = <<Home[u], handle[u]>>
        <5>1. PICK u \in Var : handle[u] \in Coro /\ e = <<Home[u], handle[u]>>
          BY <4>1
        <5> QED
          BY <1>1, <2>1, <3>2, <5>1, LinksAre
      <4>2. CASE \E x \in Coro : awaiter[x] \in Coro /\ e = <<x, awaiter[x]>>
        <5>1. PICK x \in Coro : awaiter[x] \in Coro /\ e = <<x, awaiter[x]>>
          BY <4>2
        <5>2. x # p
          BY <1>1, <5>1, DistinctAssumption
        <5> QED
          BY <1>1, <5>1, <5>2, LinksAre
      <4> QED
        BY <3>2, <4>1, <4>2, LinksAre
    <3>3. <<p, f>> \in Links'
      BY <1>1, <2>1, LinksAre
    <3> QED
      BY <3>1, <3>2, <3>3
  <2>5. Links' = {e \in Links : e[2] # f} \cup {<<p, f>>}
    BY <2>4
  <2>6. Forest!Move(f, p)
    BY <1>3, <2>1, <2>2, <2>5 DEF Forest!Move, Forest!Given
  <2> QED
    BY <2>1, <2>2, <2>6
<1> QED
  BY <1>4, <1>5

\* A move assignment gives away, ends, replaces or does nothing.
LEMMA AssignReplaces ==
  ASSUME Ownership, NEW v \in Var, NEW w \in Var, MoveAssign(v, w)
  PROVE  \/ UNCHANGED Forest!ovars
         \/ \E f \in {c \in Coro : Alive(c)} : Forest!End(f)
         \/ \E f \in {c \in Coro : Alive(c)}, h \in {c \in Coro : Alive(c)} \cup {Main} :
              Forest!Move(f, h)
         \/ \E e \in Links, f \in {c \in Coro : Alive(c)} :
              Forest!Replace(e[2], f, e[1])
<1> DEFINE D == Subtree(handle[v])
<1>1. /\ D \subseteq Coro /\ Home[v] \notin D /\ handle[w] \notin D
      /\ ClosedUnderOwns(D)
      /\ \A u \in Var :
           handle'[u] = IF u = v THEN handle[w]
                        ELSE IF u = w \/ handle[u] \in D THEN None
                        ELSE handle[u]
      /\ \A x \in Coro :
           awaiter'[x] = IF awaiter[x] \in D THEN None ELSE awaiter[x]
      /\ \A c \in Coro :
           continuation'[c] = IF c \in D THEN None ELSE continuation[c]
      /\ \A c \in Coro : state'[c] = IF c \in D THEN "dead" ELSE state[c]
  BY MoveEffect
<1>2. v # w /\ Home[v] \notin Subtree(handle[w])
  BY DEF MoveAssign
<1>3. Outlive(D)
  BY <1>1 DEF Outlive
<1>4. \A d \in D : Alive(d)
  BY HeldAlive
<1>5. /\ {c \in Coro : state'[c] # "unborn"} = {c \in Coro : state[c] # "unborn"}
      /\ {c \in Coro : Alive(c)'} = {c \in Coro : Alive(c)} \ D
  BY <1>1, <1>3, <1>4, OutliveLives
<1>6. handle[v] \in D \cup {None}
  BY HeldAlive, SubtreeClosed
<1>7. CASE handle[w] = None
  <2>1. Detached(D)
    BY <1>1, <1>2, <1>6, <1>7, TempAssumption DEF Detached, Cut
  <2>2. /\ Forest!Drop(D)
        /\ {c \in Coro : state'[c] # "unborn"} = {c \in Coro : state[c] # "unborn"}
    BY <1>3, <1>4, <2>1, DetachedDrops
  <2>3. CASE handle[v] = None
    BY <2>2, <2>3, SubtreeClosed, DropsNothing
  <2>4. CASE handle[v] # None
    <3>1. handle[v] \in Coro /\ Alive(handle[v])
      BY <2>4, HeldAlive
    <3>2. Forest!End(handle[v])
      BY <2>2, <3>1, BelowIsSubtree DEF Forest!End
    <3> QED
      BY <3>1, <3>2
  <2> QED
    BY <2>3, <2>4
<1>8. CASE handle[w] # None
  <2>1. PICK f \in Coro : f = handle[w] /\ Alive(f)
    BY <1>8, HeldAlive
  <2>2. Home[v] \notin Forest!Below(f)
    BY <1>2, <2>1, BelowIsSubtree
  <2>3. Home[v] \in {c \in Coro : Alive(c)} \cup {Main}
    BY AccessibleHome DEF MoveAssign, Alive, Ownership
  <2>4. /\ \A u \in Var : handle[u] = f => u = w
        /\ \A x \in Coro : awaiter[x] # f
        /\ f \notin D
    BY <1>1, <2>1, DistinctAssumption DEF Ownership, UniqueOwner
  <2>5. handle[v] = None => D = {}
    BY SubtreeClosed
  <2> HIDE DEF D
  <2>6. ASSUME NEW e
        PROVE  e \in Links' <=>
                 ((e \in Links /\ e[2] # f) \/ e = <<Home[v], f>>) /\ e[2] \notin D
    <3>1. ASSUME e \in Links'
          PROVE  ((e \in Links /\ e[2] # f) \/ e = <<Home[v], f>>) /\ e[2] \notin D
      <4>1. CASE \E u \in Var : handle'[u] \in Coro /\ e = <<Home[u], handle'[u]>>
        <5>1. PICK u \in Var : handle'[u] \in Coro /\ e = <<Home[u], handle'[u]>>
          BY <4>1
        <5>2. CASE u = v
          BY <1>1, <2>1, <2>4, <5>1, <5>2
        <5>3. CASE u # v
          <6>1. u # w /\ handle[u] \notin D /\ handle'[u] = handle[u]
            BY <1>1, <5>1, <5>3, DistinctAssumption
          <6>2. handle[u] # f /\ e[2] = handle[u]
            BY <2>4, <5>1, <6>1
          <6> QED
            BY <5>1, <6>1, <6>2, LinksAre
        <5> QED
          BY <5>2, <5>3
      <4>2. CASE \E x \in Coro : awaiter'[x] \in Coro /\ e = <<x, awaiter'[x]>>
        <5>1. PICK x \in Coro : awaiter'[x] \in Coro /\ e = <<x, awaiter'[x]>>
          BY <4>2
        <5>2. awaiter'[x] = awaiter[x] /\ awaiter[x] \notin D /\ e[2] = awaiter[x]
          BY <1>1, <5>1, DistinctAssumption
        <5> QED
          BY <2>4, <5>1, <5>2, LinksAre
      <4> QED
        BY <3>1, <4>1, <4>2, LinksAre
    <3>2. ASSUME e \in Links, e[2] # f, e[2] \notin D
          PROVE  e \in Links'
      <4>1. CASE \E u \in Var : handle[u] \in Coro /\ e = <<Home[u], handle[u]>>
        <5>1. PICK u \in Var : handle[u] \in Coro /\ e = <<Home[u], handle[u]>>
          BY <4>1
        <5>2. handle[u] \notin D /\ u # w /\ u # v
          BY <1>6, <2>1, <3>2, <5>1, DistinctAssumption
        <5>3. handle'[u] = handle[u]
          BY <1>1, <5>2
        <5> QED
          BY <5>1, <5>3, LinksAre
      <4>2. CASE \E x \in Coro : awaiter[x] \in Coro /\ e = <<x, awaiter[x]>>
        <5>1. PICK x \in Coro : awaiter[x] \in Coro /\ e = <<x, awaiter[x]>>
          BY <4>2
        <5>2. awaiter'[x] = awaiter[x]
          BY <1>1, <3>2, <5>1
        <5> QED
          BY <5>1, <5>2, LinksAre
      <4> QED
        BY <3>2, <4>1, <4>2, LinksAre
    <3>3. <<Home[v], f>> \in Links' /\ <<Home[v], f>>[2] = f
      BY <1>1, <2>1, LinksAre
    <3> QED
      BY <3>1, <3>2, <3>3
  <2>7. Links' = {e \in Forest!Given(f, Home[v]) : e[2] \notin D}
    BY <2>6 DEF Forest!Given
  <2>8. CASE handle[v] = None
    <3>1. D = {}
      BY <2>5, <2>8
    <3>2. Links' = Forest!Given(f, Home[v])
      BY <2>7, <3>1
    <3>3. Forest!Move(f, Home[v])
      BY <1>5, <2>1, <2>2, <2>3, <3>1, <3>2 DEF Forest!Move
    <3> QED
      BY <2>1, <2>3, <3>3
  <2>9. CASE handle[v] # None
    <3>1. PICK g \in Coro : g = handle[v]
      BY <2>9, HeldAlive
    <3>2. D = Forest!Below(g)
      BY <3>1, BelowIsSubtree DEF D
    <3>3. <<Home[v], g>> \in Links
      BY <3>1, LinksAre
    <3>4. Forest!Replace(g, f, Home[v])
      BY <1>5, <2>1, <2>2, <2>4, <2>7, <3>2, <3>3 DEF Forest!Replace
    <3>5. <<Home[v], g>>[2] = g /\ <<Home[v], g>>[1] = Home[v]
      OBVIOUS
    <3> QED
      BY <2>1, <3>3, <3>4, <3>5
  <2> QED
    BY <2>8, <2>9
<1> QED
  BY <1>7, <1>8

\* The other steps neither create, destroy nor give away a frame.
LEMMA TaskStutters ==
  ASSUME Ownership, NEW v \in Var, Start(v) \/ Result(v)
  PROVE  UNCHANGED Forest!ovars
<1>1. CASE UNCHANGED <<handle, awaiter, state>>
  BY <1>1, ForestStutters DEF Outlive
<1>2. CASE StartResume(v)
  <2>1. /\ UNCHANGED <<handle, awaiter>> /\ handle[v] \in Coro
        /\ Alive(handle[v]) /\ Entered(handle[v]) \in {"active", "resume"}
        /\ \A c \in Coro : state'[c] = IF c = handle[v] THEN Entered(c)
                                       ELSE state[c]
    BY <1>2, HeldAlive DEF StartResume, Ownership, TypeOK, Resumable, Entered
  <2> QED
    BY <2>1, ForestStutters DEF Outlive, Alive
<1> QED
  BY <1>1, <1>2
  DEF Start, StartEmpty, StartDone, Result, ResultUnavailable, ResultKept,
      ResultMoved, ResultAvailable, Raise, vars

LEMMA BodyStutters ==
  ASSUME Ownership, NEW p \in Coro,
         AwaitResumeEmpty(p) \/ Throw(p) \/ Suspend(p) \/ Wake(p)
  PROVE  UNCHANGED Forest!ovars
<1>1. CASE UNCHANGED <<handle, awaiter, state>>
  BY <1>1, ForestStutters DEF Outlive
<1>2. CASE AwaitResumeEmpty(p) \/ Suspend(p) \/ Wake(p)
  <2>1. UNCHANGED <<handle, awaiter>> /\ Outlive({})
    BY <1>2, LeafAssumption
    DEF AwaitResumeEmpty, Suspend, Wake, Executing, Outlive, Alive, Ownership,
        TypeOK
  <2> QED
    BY <2>1, ForestStutters
<1> QED
  BY <1>1, <1>2 DEF Throw

LEMMA ForestStep ==
  ASSUME Ownership, [Next]_vars
  PROVE  Forest!ONext \/ UNCHANGED Forest!ovars
<1>1. ASSUME NEW v \in Var, NEW c \in Coro, Create(v, c)
      PROVE  Forest!ONext
  BY <1>1, CallBegins DEF Forest!ONext
<1>2. ASSUME NEW v \in Var, NEW w \in Var, MoveAssign(v, w)
      PROVE  Forest!ONext \/ UNCHANGED Forest!ovars
  BY <1>2, AssignReplaces DEF Forest!ONext
<1>3. ASSUME NEW v \in Var, Destroy(v)
      PROVE  Forest!ONext \/ UNCHANGED Forest!ovars
  BY <1>3, DestroyEnds DEF Forest!ONext
<1>4. ASSUME NEW v \in Var, NEW p \in Coro, Await(p, v)
      PROVE  Forest!ONext \/ UNCHANGED Forest!ovars
  BY <1>4, AwaitMoves DEF Forest!ONext
<1>5. ASSUME NEW v \in Var, Start(v) \/ Result(v)
      PROVE  UNCHANGED Forest!ovars
  BY <1>5, TaskStutters
<1>6. ASSUME NEW p \in Coro, AwaitResume(p)
      PROVE  Forest!ONext \/ UNCHANGED Forest!ovars
  <2>1. CASE AwaitResumeEmpty(p)
    BY <2>1, BodyStutters
  <2>2. CASE AwaitResumeOwned(p)
    <3>1. awaiter[p] # None /\ state[p] = "resume" /\ Running(p)
      BY <2>2 DEF AwaitResumeOwned, Running
    <3>2. CASE EndAwaiters(p)
      BY <3>1, <3>2, EndAwaitersReleases DEF Forest!ONext
    <3>3. ASSUME NEW v \in Temporaries(p), KeepAwaiter(p, v)
          PROVE  UNCHANGED Forest!ovars
      BY <3>1, <3>3, KeepAwaiterStutters
    <3> QED
      BY <2>2, <3>2, <3>3 DEF AwaitResumeOwned
  <2> QED
    BY <1>6, <2>1, <2>2 DEF AwaitResume
<1>7. ASSUME NEW p \in Coro, Return(p) \/ Unhandled(p)
      PROVE  Forest!ONext
  BY <1>7, FinalSuspendReleases DEF Return, Unhandled, Forest!ONext
<1>8. ASSUME NEW p \in Coro, Throw(p) \/ Suspend(p) \/ Wake(p)
      PROVE  UNCHANGED Forest!ovars
  BY <1>8, BodyStutters
<1>9. CASE UNCHANGED vars
  BY <1>9, ForestStutters DEF vars, Outlive
<1>10. ASSUME NEW p \in Coro, Catch(p) \/ EndExpression(p)
       PROVE  Forest!ONext
  BY <1>10, EndAwaitersReleases
  DEF Catch, EndExpression, Executing, Running, Forest!ONext
<1> QED
  BY <1>1, <1>2, <1>3, <1>4, <1>5, <1>6, <1>7, <1>8, <1>9, <1>10
  DEF Next, TaskStep, BodyStep

\* Task implements Owners: whatever coroutines do, their frames are a forest
\* under the main program, in which a frame moves to a place that does not hang
\* from it, and ends with everything that does.
THEOREM TaskImplementsOwners == Spec => ImplementsOwners
<1>1. Init => Forest!OInit
  <2> SUFFICES ASSUME Init PROVE Forest!OInit
    OBVIOUS
  <2>1. /\ {c \in Coro : state[c] # "unborn"} = {}
        /\ {c \in Coro : Alive(c)} = {}
    BY DEF Init, Alive
  <2>2. \A e : e \notin Links
    BY DistinctAssumption, LinksAre DEF Init
  <2>3. Links = {}
    BY <2>2
  <2> QED
    BY <2>1, <2>3 DEF Forest!OInit
<1>2. Ownership /\ [Next]_vars => [Forest!ONext]_(Forest!ovars)
  BY ForestStep
<1> QED
  BY <1>1, <1>2, OwnershipInvariant, PTL DEF Spec, ImplementsOwners, Forest!OSpec

(***************************************************************************)
(* No await waits for nothing.  Two more facts about every state: what is  *)
(* awaited has been started, and only finitely many frames were created.   *)
(***************************************************************************)

Served ==
  /\ \A c \in Coro : continuation[c] # None => state[c] # "start"
  /\ IsFiniteSet({c \in Coro : state[c] # "unborn"})

LEMMA ServedInit == Init => Served
<1> SUFFICES ASSUME Init PROVE Served
  OBVIOUS
<1>1. {c \in Coro : state[c] # "unborn"} = {}
  BY DEF Init
<1> QED
  BY <1>1, FS_EmptySet DEF Init, Served

\* Owners creates one frame at a time.
LEMMA BornFinite ==
  ASSUME Ownership, [Next]_vars, IsFiniteSet({c \in Coro : state[c] # "unborn"})
  PROVE  IsFiniteSet({c \in Coro : state'[c] # "unborn"})
<1> DEFINE B == {c \in Coro : state[c] # "unborn"}
           C == {c \in Coro : state'[c] # "unborn"}
<1>1. C = B \/ \E f : C = B \cup {f}
  BY ForestStep
  DEF Forest!ONext, Forest!Begin, Forest!End, Forest!Release, Forest!Move,
      Forest!Replace, Forest!ovars
<1> HIDE DEF B, C
<1>2. IsFiniteSet(B) => IsFiniteSet(C)
  BY <1>1, FS_AddElement
<1> QED
  BY <1>2 DEF B, C

\* A continuation is given to a coroutine together with the processor.
LEMMA AwaitedHaveStarted ==
  ASSUME Ownership, Served, [Next]_vars
  PROVE  \A c \in Coro : continuation'[c] # None => state'[c] # "start"
<1> USE DEF Ownership, TypeOK
<1>1. ASSUME NEW v \in Var, NEW c \in Coro, Create(v, c)
      PROVE  \A d \in Coro : continuation'[d] # None => state'[d] # "start"
  BY <1>1 DEF Create, Served, Linked, Alive
<1>2. ASSUME NEW p \in Coro, NEW v \in Var, Await(p, v)
      PROVE  \A d \in Coro : continuation'[d] # None => state'[d] # "start"
  <2>1. CASE AwaitImmediate(p, v)
    BY <2>1 DEF AwaitImmediate, Served
  <2>2. CASE AwaitSuspend(p, v)
    BY <2>2 DEF AwaitSuspend, AwaitReady, Connected, Entered, Served
  <2> QED
    BY <1>2, <2>1, <2>2 DEF Await
<1>3. ASSUME UNCHANGED continuation,
             \A c \in Coro : state'[c] # "start" \/ state'[c] = state[c]
      PROVE  \A d \in Coro : continuation'[d] # None => state'[d] # "start"
  BY <1>3 DEF Served
<1>4. ASSUME NEW v \in Var, NEW w \in Var, MoveAssign(v, w) \/ Destroy(v)
      PROVE  \A d \in Coro : continuation'[d] # None => state'[d] # "start"
  BY <1>4 DEF MoveAssign, Destroy, Released, Destroyed, Served
<1>5. ASSUME NEW v \in Var, Start(v) \/ Result(v)
      PROVE  \A d \in Coro : continuation'[d] # None => state'[d] # "start"
  <2>1. /\ UNCHANGED continuation
        /\ \A c \in Coro : state'[c] # "start" \/ state'[c] = state[c]
    BY <1>5
    DEF Start, StartEmpty, StartDone, StartResume, Entered, Raise, Result,
        ResultUnavailable, ResultKept, ResultMoved, ResultAvailable, vars
  <2> QED
    BY <1>3, <2>1
<1>a. ASSUME NEW p \in Coro, EndAwaiters(p)
      PROVE  \A d \in Coro : continuation'[d] # None => state'[d] # "start"
  BY <1>a DEF EndAwaiters, Released, Destroyed, Served
<1>6. ASSUME NEW p \in Coro, AwaitResumeOwned(p)
      PROVE  \A d \in Coro : continuation'[d] # None => state'[d] # "start"
  <2>1. CASE EndAwaiters(p)
    BY <1>a, <2>1
  <2>2. ASSUME NEW v \in Temporaries(p), KeepAwaiter(p, v)
        PROVE  \A d \in Coro : continuation'[d] # None => state'[d] # "start"
    BY <2>2 DEF KeepAwaiter, Served
  <2> QED
    BY <1>6, <2>1, <2>2 DEF AwaitResumeOwned
<1>7. ASSUME NEW p \in Coro, FinalSuspend(p)
      PROVE  \A d \in Coro : continuation'[d] # None => state'[d] # "start"
  BY <1>7 DEF FinalSuspend, Released, Served
<1>8. ASSUME NEW p \in Coro,
             AwaitResumeEmpty(p) \/ Throw(p) \/ Suspend(p) \/ Wake(p)
      PROVE  \A d \in Coro : continuation'[d] # None => state'[d] # "start"
  BY <1>3, <1>8, LeafAssumption
  DEF AwaitResumeEmpty, Throw, Suspend, Wake
<1>9. CASE UNCHANGED vars
  BY <1>3, <1>9 DEF vars
<1> QED
  BY <1>1, <1>2, <1>4, <1>5, <1>6, <1>7, <1>8, <1>9, <1>a
  DEF Next, TaskStep, BodyStep, AwaitResume, Return, Unhandled, Catch,
      EndExpression

LEMMA ServedInvariant == Spec => [](Ownership /\ Served)
<1>1. Ownership /\ Served /\ [Next]_vars => Served'
  BY AwaitedHaveStarted, BornFinite DEF Served
<1> QED
  BY <1>1, ServedInit, OwnershipInvariant, PTL DEF Spec

\* p is in its chain, which goes on with what its members await.
LEMMA ChainCloses ==
  ASSUME NEW p \in Coro, Ownership
  PROVE  /\ p \in Chain(p) /\ Chain(p) \in SUBSET Coro
         /\ \A x \in Chain(p) : state[x] = "await" => awaiter[x] \in Chain(p)
<1>1. ASSUME NEW x \in Chain(p), state[x] = "await"
      PROVE  awaiter[x] \in Chain(p)
  <2>1. x \in Coro /\ awaiter[x] \in Coro
    BY <1>1 DEF Chain, Ownership, Linked, TypeOK
  <2> QED
    BY <1>1, <2>1 DEF Chain
<1> QED
  BY <1>1 DEF Chain

\* Every member of the chain but p is awaited by a member.
LEMMA ChainAwaited ==
  ASSUME Ownership, NEW p \in Coro, NEW d \in Chain(p), d # p
  PROVE  \E x \in Chain(p) : state[x] = "await" /\ awaiter[x] = d
<1> SUFFICES ASSUME \A x \in Chain(p) : ~(state[x] = "await" /\ awaiter[x] = d)
             PROVE  FALSE
  OBVIOUS
<1> DEFINE S == Chain(p) \ {d}
<1>1. /\ S \in SUBSET Coro /\ p \in S
      /\ \A x \in S : state[x] = "await" => awaiter[x] \in S
  BY ChainCloses
<1>2. \A S0 \in SUBSET Coro :
        p \in S0 /\ (\A x \in S0 : state[x] = "await" => awaiter[x] \in S0)
          => d \in S0
  BY DEF Chain
<1>3. d \in S
  <2> HIDE DEF S
  <2> QED
    BY <1>1, <1>2
<1> QED
  BY <1>3

\* Finitely many coroutines cannot all await one another: they would own one
\* another, and no Task of the main program would reach them.
LEMMA NoAwaitCycle ==
  ASSUME Ownership, NEW S \in SUBSET Coro, IsFiniteSet(S), S # {},
         \A x \in S : Alive(x) /\ awaiter[x] \in S
  PROVE  FALSE
<1> DEFINE g == [x \in S |-> awaiter[x]]
<1>1. g \in Injection(S, S)
  <2>1. g \in [S -> S]
    OBVIOUS
  <2>2. \A a, b \in S : g[a] = g[b] => a = b
    BY DistinctAssumption DEF Ownership, UniqueOwner
  <2>3. IsInjective(g)
    BY <2>1, <2>2 DEF IsInjective
  <2> QED
    BY <2>1, <2>3 DEF Injection
<1>2. g \in Surjection(S, S)
  BY <1>1, FS_Injection
<1>3. \A d \in S : \E x \in S : awaiter[x] = d
  BY <1>2 DEF Surjection
<1> DEFINE T == Coro \ S
<1>4. T \in SUBSET Coro
  OBVIOUS
<1>5. \A v \in Var : handle[v] # None => handle[v] \in T
  BY <1>3 DEF Ownership, UniqueOwner, TypeOK
<1>6. ClosedUnderOwns(T)
  <2> SUFFICES ASSUME NEW x \in T, NEW d \in Coro, Owns(x, d), d \in S
               PROVE  FALSE
    BY DEF ClosedUnderOwns
  <2>1. PICK y \in S : awaiter[y] = d
    BY <1>3
  <2>2. CASE awaiter[x] = d
    BY <2>1, <2>2, DistinctAssumption DEF Ownership, UniqueOwner
  <2>3. CASE \E v \in Var : handle[v] = d
    BY <1>5, <2>3, DistinctAssumption
  <2> QED
    BY <2>2, <2>3 DEF Owns
<1>7. \A c \in Coro : Alive(c) => c \in T
  <2> HIDE DEF T
  <2> QED
    BY <1>4, <1>5, <1>6 DEF Ownership, NoLeak
<1> QED
  BY <1>7

\* Every await is for something that can go on: what a coroutine waits for, what
\* that waits for and so on comes to one that executes or that something else
\* than a Task will resume.  There is no deadlock among Tasks.
THEOREM AwaitsAreServed == Spec => []AwaitChainsEnd
<1>1. ASSUME Ownership, Served, NEW p \in Coro, state[p] = "await",
             \A c \in Chain(p) :
               state[c] \notin {"active", "resume", "yield", "event"}
      PROVE  FALSE
  <2> DEFINE S == Chain(p)
  <2>1. /\ p \in S /\ S \in SUBSET Coro
        /\ \A x \in S : state[x] = "await" => awaiter[x] \in S
    BY <1>1, ChainCloses
  <2>2. ASSUME NEW d \in S, d # p
        PROVE  state[d] = "await"
    <3>1. PICK x \in S : state[x] = "await" /\ awaiter[x] = d
      BY <1>1, <2>2, ChainAwaited
    <3>2. d \in Coro /\ Alive(d) /\ ~Done(d) /\ continuation[d] = x /\ x # None
      BY <1>1, <2>1, <3>1, DistinctAssumption DEF Ownership, Linked
    <3>3. state[d] \in State /\ state[d] # "start"
      BY <1>1, <3>2 DEF Served, Ownership, TypeOK
    <3>4. state[d] \notin {"active", "resume", "yield", "event"}
      BY <1>1
    <3> QED
      BY <3>2, <3>3, <3>4 DEF State, Alive, Done
  <2>3. \A x \in S : state[x] = "await" /\ Alive(x) /\ awaiter[x] \in S
    BY <1>1, <2>1, <2>2 DEF Alive
  <2>4. S \in SUBSET {c \in Coro : state[c] # "unborn"}
    BY <2>1, <2>3
  <2> HIDE DEF S
  <2>5. IsFiniteSet(S)
    BY <1>1, <2>4, FS_Subset DEF Served
  <2> QED
    BY <1>1, <2>1, <2>3, <2>5, NoAwaitCycle
<1>2. Ownership /\ Served => AwaitChainsEnd
  BY <1>1 DEF AwaitChainsEnd
<1> QED
  BY <1>2, ServedInvariant, PTL
=============================================================================
