------------------------- MODULE TaskPromiseProofs -------------------------
(* Theorems about Task, for every set of coroutines and Tasks: execution,   *)
(* what observers are told, and that Task implements Deferred.              *)
EXTENDS TaskProofs

(***************************************************************************)
(* The resume stack.                                                       *)
(***************************************************************************)

\* s holds each member of R once, and nothing else.
Enters(s, R) ==
  /\ \A i, j \in DOMAIN s : s[i] = s[j] => i = j
  /\ \A c \in Coro : c \in R <=> \E i \in DOMAIN s : s[i] = c

RunningSet == {c \in Coro : Running(c)}

\* A completed coroutine owns nothing any more.
FinalEmpty ==
  \A v \in Var : Home[v] \in Coro /\ Done(Home[v]) => handle[v] = None

\* What an await_resume() about to run will destroy is suspended.
ResumeIdle ==
  \A p \in Coro : state[p] = "resume" /\ awaiter[p] # None
                    => Idle(Subtree(awaiter[p]))

Execution == Ownership /\ StackSound /\ FinalEmpty /\ ResumeIdle

LEMMA StackSoundEnters ==
  ASSUME TypeOK
  PROVE  StackSound <=> /\ Enters(stack, RunningSet)
                        /\ \A c \in Coro : state[c] = "resume" => c = Top
BY DEF StackSound, Enters, RunningSet

LEMMA PopEnters ==
  ASSUME stack \in Seq(Coro), NEW R, Enters(stack, R), Top # Main
  PROVE  /\ Top \in Coro /\ Top \in R
         /\ Enters(Pop, R \ {Top})
<1>1. stack # <<>> /\ Len(stack) \in Nat \ {0}
  BY EmptySeq, LenProperties DEF Top
<1>2. /\ Top = stack[Len(stack)] /\ Top \in Coro
      /\ DOMAIN stack = 1 .. Len(stack)
  BY <1>1, LenProperties DEF Top
<1>3. /\ DOMAIN Pop = 1 .. Len(stack) - 1
      /\ \A i \in 1 .. Len(stack) - 1 : Pop[i] = stack[i]
  BY <1>1 DEF Pop
<1>4. \A i \in 1 .. Len(stack) - 1 : stack[i] # Top
  BY <1>1, <1>2 DEF Enters
<1>5. ASSUME NEW c \in Coro
      PROVE  c \in R \ {Top} <=> \E i \in DOMAIN Pop : Pop[i] = c
  <2>1. ASSUME c \in R, c # Top
        PROVE  \E i \in DOMAIN Pop : Pop[i] = c
    <3>1. PICK i \in 1 .. Len(stack) : stack[i] = c
      BY <1>2, <2>1 DEF Enters
    <3>2. i \in 1 .. Len(stack) - 1
      BY <1>1, <1>2, <2>1, <3>1
    <3> QED
      BY <1>3, <3>1, <3>2
  <2>2. ASSUME NEW i \in DOMAIN Pop, Pop[i] = c
        PROVE  c \in R \ {Top}
    <3>1. i \in 1 .. Len(stack) /\ stack[i] = c /\ c # Top
      BY <1>1, <1>3, <1>4, <2>2
    <3> QED
      BY <1>2, <3>1 DEF Enters
  <2> QED
    BY <2>1, <2>2
<1>6. \A i, j \in DOMAIN Pop : Pop[i] = Pop[j] => i = j
  <2> SUFFICES ASSUME NEW i \in DOMAIN Pop, NEW j \in DOMAIN Pop, Pop[i] = Pop[j]
               PROVE  i = j
    OBVIOUS
  <2>1. i \in DOMAIN stack /\ j \in DOMAIN stack /\ stack[i] = stack[j]
    BY <1>1, <1>2, <1>3
  <2> QED
    BY <2>1 DEF Enters
<1>7. Top \in R
  BY <1>1, <1>2 DEF Enters
<1> QED
  BY <1>2, <1>5, <1>6, <1>7 DEF Enters

LEMMA PushEnters ==
  ASSUME NEW s \in Seq(Coro), NEW R, Enters(s, R), NEW c \in Coro, c \notin R
  PROVE  /\ Enters(Append(s, c), R \cup {c})
         /\ Append(s, c) # <<>>
         /\ Append(s, c)[Len(Append(s, c))] = c
<1> DEFINE t == Append(s, c)
<1>1. /\ Len(s) \in Nat /\ DOMAIN s = 1 .. Len(s)
      /\ t \in Seq(Coro) /\ Len(t) = Len(s) + 1
      /\ DOMAIN t = 1 .. Len(s) + 1
      /\ t[Len(s) + 1] = c
      /\ \A i \in 1 .. Len(s) : t[i] = s[i]
  BY LenProperties, AppendProperties
<1> HIDE DEF t
<1>2. \A i \in 1 .. Len(s) : s[i] # c
  BY <1>1 DEF Enters
<1>3. ASSUME NEW d \in Coro
      PROVE  d \in R \cup {c} <=> \E i \in DOMAIN t : t[i] = d
  <2>1. d \in R <=> \E i \in 1 .. Len(s) : s[i] = d
    BY <1>1 DEF Enters
  <2>2. (\E i \in DOMAIN t : t[i] = d) <=> d = c \/ \E i \in 1 .. Len(s) : s[i] = d
    <3>1. ASSUME NEW i \in DOMAIN t, t[i] = d
          PROVE  d = c \/ \E j \in 1 .. Len(s) : s[j] = d
      <4>1. CASE i = Len(s) + 1
        BY <1>1, <3>1, <4>1
      <4>2. CASE i # Len(s) + 1
        <5>1. i \in 1 .. Len(s)
          BY <1>1, <4>2
        <5> QED
          BY <1>1, <3>1, <5>1
      <4> QED
        BY <4>1, <4>2
    <3>2. d = c => \E i \in DOMAIN t : t[i] = d
      BY <1>1
    <3>3. ASSUME NEW i \in 1 .. Len(s), s[i] = d
          PROVE  \E j \in DOMAIN t : t[j] = d
      BY <1>1, <3>3
    <3> QED
      BY <3>1, <3>2, <3>3
  <2> QED
    BY <2>1, <2>2
<1>4. ASSUME NEW i \in DOMAIN t, NEW j \in DOMAIN t, t[i] = t[j]
      PROVE  i = j
  BY <1>1, <1>2, <1>4 DEF Enters
<1>5. t # <<>> /\ t[Len(t)] = c
  BY <1>1
<1> QED
  BY <1>3, <1>4, <1>5 DEF Enters, t

\* How a step may change the stack: not at all; by pushing c; by popping the
\* top; by replacing the top with c.
LEMMA StackStays ==
  ASSUME TypeOK, StackSound, stack' = stack,
         \A d \in Coro : Running(d)' <=> Running(d),
         \A d \in Coro : state'[d] = "resume" => state[d] = "resume" \/ d = Top
  PROVE  StackSound'
<1>1. Top' = Top
  BY DEF Top
<1> QED
  BY <1>1 DEF StackSound

LEMMA StackPushes ==
  ASSUME TypeOK, StackSound, NEW c \in Coro, ~Running(c),
         stack' = Append(stack, c),
         \A d \in Coro : Running(d)' <=> Running(d) \/ d = c,
         \A d \in Coro : state'[d] = "resume" => d = c
  PROVE  StackSound'
<1>1. stack \in Seq(Coro) /\ Enters(stack, RunningSet) /\ c \notin RunningSet
  BY StackSoundEnters DEF TypeOK, RunningSet
<1>2. /\ Enters(stack', RunningSet \cup {c})
      /\ stack' # <<>> /\ stack'[Len(stack')] = c
  BY <1>1, PushEnters
<1>3. Top' = c
  BY <1>2 DEF Top
<1> QED
  BY <1>2, <1>3 DEF StackSound, Enters, RunningSet

LEMMA StackPops ==
  ASSUME TypeOK, StackSound, Top # Main, stack' = Pop,
         \A d \in Coro : Running(d)' <=> Running(d) /\ d # Top,
         \A d \in Coro : state'[d] # "resume"
  PROVE  StackSound'
<1>1. stack \in Seq(Coro) /\ Enters(stack, RunningSet)
  BY StackSoundEnters DEF TypeOK
<1>2. Enters(stack', RunningSet \ {Top})
  BY <1>1, PopEnters
<1> QED
  BY <1>2 DEF StackSound, Enters, RunningSet

LEMMA StackTransfers ==
  ASSUME TypeOK, StackSound, Top # Main, NEW c \in Coro, ~Running(c),
         stack' = TransferTo(c),
         \A d \in Coro : Running(d)' <=> (Running(d) /\ d # Top) \/ d = c,
         \A d \in Coro : state'[d] = "resume" => d = c
  PROVE  StackSound'
<1>1. stack \in Seq(Coro) /\ Enters(stack, RunningSet) /\ c \notin RunningSet
  BY StackSoundEnters DEF TypeOK, RunningSet
<1>2. Pop \in Seq(Coro) /\ Enters(Pop, RunningSet \ {Top})
  BY <1>1, PopEnters, PopType
<1>3. /\ Enters(stack', (RunningSet \ {Top}) \cup {c})
      /\ stack' # <<>> /\ stack'[Len(stack')] = c
  BY <1>1, <1>2, PushEnters DEF TransferTo
<1>4. Top' = c
  BY <1>3 DEF Top
<1> QED
  BY <1>3, <1>4 DEF StackSound, Enters, RunningSet

\* Code that can act is not about to run await_resume(), nor is anybody else.
LEMMA NobodyResumes ==
  ASSUME TypeOK, StackSound, CanAct
  PROVE  /\ \A c \in Coro : state[c] # "resume"
         /\ Top # Main => Top \in Coro /\ state[Top] = "active" /\ Running(Top)
<1>1. Top \in Coro \cup {Main}
  BY EmptySeq, LenProperties DEF TypeOK, Top
<1> QED
  BY <1>1, DistinctAssumption DEF StackSound, CanAct, Running

\* Frames that are destroyed were not executing, so the others execute as before.
LEMMA DestroyingStays ==
  ASSUME TypeOK, StackSound, NEW D, D \subseteq Coro, Idle(D), stack' = stack,
         \A c \in D : state'[c] = "dead",
         \A c \in Coro : c \notin D =>
           \/ state'[c] = state[c]
           \/ Running(c) /\ state'[c] = "active"
  PROVE  StackSound'
<1>1. \A d \in Coro : Running(d)' <=> Running(d)
  BY DEF Idle, Running
<1>2. \A d \in Coro : state'[d] = "resume" => state[d] = "resume"
  OBVIOUS
<1> QED
  BY <1>1, <1>2, StackStays

LEMMA AwaitStack ==
  ASSUME Ownership, StackSound, NEW p \in Coro, NEW v \in Var, Await(p, v)
  PROVE  StackSound'
<1>1. /\ TypeOK /\ p = Top /\ CanAct /\ Top # Main /\ state[p] = "active"
      /\ \A c \in Coro : state[c] # "resume"
  BY NobodyResumes, DistinctAssumption
  DEF Ownership, Await, AwaitImmediate, AwaitSuspend, ConsumeTask, Accessible,
      CanAct
<1>2. CASE AwaitImmediate(p, v)
  <2>1. /\ stack' = stack
        /\ \A c \in Coro : state'[c] = IF c = p THEN "resume" ELSE state[c]
    BY <1>1, <1>2 DEF AwaitImmediate, TypeOK
  <2> QED
    BY <1>1, <2>1, StackStays DEF Running
<1>3. CASE AwaitSuspend(p, v)
  <2> DEFINE c == handle[v]
  <2>1. c \in Coro /\ Resumable(c) /\ ~Running(c) /\ c # p
    <3>1. c # None /\ Resumable(c)
      BY <1>3, SuspendsForResumable
    <3> QED
      BY <1>1, <3>1 DEF Resumable, Running, TypeOK
  <2>2. /\ stack' = TransferTo(c)
        /\ \A d \in Coro : state'[d] = IF d = c THEN Entered(c)
                                       ELSE IF d = p THEN "await" ELSE state[d]
    BY <1>1, <1>3, <2>1 DEF AwaitSuspend, TypeOK
  <2> HIDE DEF c
  <2>3. \A d \in Coro : Running(d)' <=> (Running(d) /\ d # Top) \/ d = c
    BY <1>1, <2>1, <2>2 DEF Running, Resumable, Entered
  <2>4. \A d \in Coro : state'[d] = "resume" => d = c
    BY <1>1, <2>2
  <2> QED
    BY <1>1, <2>1, <2>2, <2>3, <2>4, StackTransfers
<1> QED
  BY <1>2, <1>3 DEF Await

LEMMA FinalStack ==
  ASSUME Ownership, StackSound, NEW p \in Coro, Executing(p), FinalSuspend(p)
  PROVE  StackSound'
<1> DEFINE D == LocalsOf(p)
           q == continuation[p]
<1>1. /\ Detached(D)
      /\ p \notin D /\ q \notin D \cup {p}
      /\ state'[p] = "final"
      /\ q # None => state'[q] = "resume"
      /\ \A c \in Coro : c \notin D \cup {p, q} => state'[c] = state[c]
  BY FinalSuspendDetaches
<1>2. Idle(D) /\ stack' = Successor(q)
  BY DEF FinalSuspend
<1>3. /\ TypeOK /\ Top = p /\ p # Main /\ state[p] = "active"
      /\ q \in Coro \cup {None}
      /\ \A c \in Coro : state[c] # "resume"
  BY DistinctAssumption DEF Executing, Ownership, TypeOK, StackSound
<1>4. q # None => state[q] = "await"
  BY <1>3, ContinuationAwaits
<1> HIDE DEF D, q
<1>5. \A c \in D : c \in Coro /\ state'[c] = "dead" /\ ~Running(c)
  BY <1>1, <1>2 DEF Detached, Cut, Idle
<1>6. \A d \in Coro : Running(d)' <=> (Running(d) /\ d # p) \/ (d = q /\ q # None)
  BY <1>1, <1>3, <1>4, <1>5, DistinctAssumption DEF Running
<1>7. \A d \in Coro : state'[d] = "resume" => d = q
  BY <1>1, <1>3, <1>5, DistinctAssumption
<1>8. CASE q = None
  BY <1>2, <1>3, <1>6, <1>7, <1>8, StackPops, DistinctAssumption DEF Successor
<1>9. CASE q # None
  BY <1>2, <1>3, <1>4, <1>6, <1>7, <1>9, StackTransfers DEF Successor, Running
<1> QED
  BY <1>8, <1>9

\* A completed coroutine is all there is below it.
LEMMA FinalAlone ==
  ASSUME Ownership, FinalEmpty, NEW c \in Coro, Done(c)
  PROVE  \A d \in Coro : ~Owns(c, d)
BY DistinctAssumption
DEF Ownership, FinalEmpty, Linked, Owns, Done, TypeOK

\* What the end of a full expression destroys is suspended.
LEMMA AwaitersIdle ==
  ASSUME Execution, NEW p \in Coro, Running(p)
  PROVE  Idle(AwaitersOf(p))
<1> USE DEF Execution
<1>1. Idle(Subtree(awaiter[p]))
  <2>1. CASE awaiter[p] = None
    BY <2>1, SubtreeClosed DEF Idle
  <2>2. CASE awaiter[p] # None
    BY <2>2 DEF ResumeIdle, Running, Ownership, Linked
  <2> QED
    BY <2>1, <2>2
<1>2. ASSUME NEW u \in Temporaries(p)
      PROVE  Idle(Subtree(handle[u]))
  <2>1. u \in Temp /\ handle[u] \in Coro \cup {None}
    BY TempAssumption DEF Temporaries, Ownership, TypeOK
  <2>2. CASE handle[u] = None
    BY <2>2, SubtreeClosed DEF Idle
  <2>3. CASE handle[u] # None
    <3>1. PICK c \in Coro : c = handle[u] /\ Done(c)
      BY <2>1, <2>3 DEF Ownership, Linked
    <3>2. {c} \in SUBSET Coro /\ c \in {c} /\ ClosedUnderOwns({c})
      BY <3>1, FinalAlone DEF ClosedUnderOwns
    <3>3. Subtree(c) \subseteq {c}
      BY <3>2, SubtreeLeast
    <3> QED
      BY <3>1, <3>3 DEF Idle, Running, Done
  <2> QED
    BY <2>1, <2>2, <2>3
<1> QED
  BY <1>1, <1>2 DEF AwaitersOf, HeldBy, Idle

LEMMA StepStack ==
  ASSUME Execution, [Next]_vars
  PROVE  StackSound'
<1> USE DEF Execution
<1>0. TypeOK
  BY DEF Ownership
<1>1. CASE UNCHANGED <<state, stack>>
  BY <1>0, <1>1, StackStays DEF Running
<1>2. ASSUME NEW v \in Var, NEW c \in Coro, Create(v, c)
      PROVE  StackSound'
  <2>1. /\ stack' = stack
        /\ state[c] = "unborn" /\ state'[c] = "start"
        /\ \A d \in Coro \ {c} : state'[d] = state[d]
    BY <1>0, <1>2 DEF Create, TypeOK
  <2> QED
    BY <1>0, <2>1, StackStays DEF Running
<1>3. ASSUME NEW v \in Var, NEW w \in Var, MoveAssign(v, w)
      PROVE  StackSound'
  <2>1. /\ Subtree(handle[v]) \subseteq Coro /\ Idle(Subtree(handle[v]))
        /\ stack' = stack
        /\ \A c \in Coro : state'[c] = IF c \in Subtree(handle[v]) THEN "dead"
                                       ELSE state[c]
    BY <1>3, MoveEffect DEF MoveAssign
  <2> QED
    BY <1>0, <2>1, DestroyingStays
<1>4. ASSUME NEW v \in Var, Destroy(v)
      PROVE  StackSound'
  <2>1. /\ Subtree(handle[v]) \subseteq Coro /\ Idle(Subtree(handle[v]))
        /\ stack' = stack
        /\ \A c \in Subtree(handle[v]) : state'[c] = "dead"
        /\ \A c \in Coro : c \notin Subtree(handle[v]) => state'[c] = state[c]
    BY <1>4, DestroyDetaches DEF Destroy, Detached, Cut
  <2> QED
    BY <1>0, <2>1, DestroyingStays
<1>5. ASSUME NEW v \in Var, Start(v)
      PROVE  StackSound'
  <2>1. CASE StartEmpty(v) \/ StartDone(v)
    BY <1>1, <2>1 DEF StartEmpty, StartDone, Raise, vars
  <2>2. CASE StartResume(v)
    <3> DEFINE c == handle[v]
    <3>1. /\ c \in Coro /\ ~Running(c) /\ Resumable(c) /\ CanAct
          /\ stack' = Append(stack, c)
          /\ \A d \in Coro : state'[d] = IF d = c THEN Entered(c) ELSE state[d]
      BY <1>0, <2>2 DEF StartResume, Accessible, Resumable, Running, TypeOK
    <3> HIDE DEF c
    <3>2. \A d \in Coro : state'[d] = "resume" => d = c
      BY <1>0, <3>1, NobodyResumes
    <3>3. \A d \in Coro : Running(d)' <=> Running(d) \/ d = c
      BY <3>1 DEF Running, Resumable, Entered
    <3> QED
      BY <1>0, <3>1, <3>2, <3>3, StackPushes
  <2> QED
    BY <1>5, <2>1, <2>2 DEF Start
<1>6. ASSUME NEW v \in Var, Result(v)
      PROVE  StackSound'
  BY <1>1, <1>6
  DEF Result, ResultUnavailable, ResultKept, ResultMoved, ResultAvailable,
      Raise
<1>7. ASSUME NEW v \in Var, NEW p \in Coro, Await(p, v)
      PROVE  StackSound'
  BY <1>7, AwaitStack
<1>a. ASSUME NEW p \in Coro, Running(p), EndAwaiters(p), stack' = stack
      PROVE  StackSound'
  <2>1. PICK D \in SUBSET Coro :
          /\ D = AwaitersOf(p) /\ p \notin D /\ state'[p] = "active"
          /\ \A c \in D : state'[c] = "dead"
          /\ \A c \in Coro : c \notin D \cup {p} => state'[c] = state[c]
    BY <1>a, EndAwaitersDetaches DEF Detached, Cut
  <2>2. Idle(D)
    BY <1>a, <2>1, AwaitersIdle
  <2> QED
    BY <1>0, <1>a, <2>1, <2>2, DestroyingStays
<1>8. ASSUME NEW p \in Coro, AwaitResume(p)
      PROVE  StackSound'
  <2>1. CASE AwaitResumeEmpty(p)
    <3>1. /\ stack' = stack /\ state[p] = "resume"
          /\ \A d \in Coro : state'[d] = IF d = p THEN "active" ELSE state[d]
      BY <1>0, <2>1 DEF AwaitResumeEmpty, TypeOK
    <3> QED
      BY <1>0, <3>1, StackStays DEF Running
  <2>2. CASE AwaitResumeOwned(p)
    <3>1. stack' = stack /\ state[p] = "resume" /\ Running(p)
      BY <2>2 DEF AwaitResumeOwned, Running
    <3>2. CASE EndAwaiters(p)
      BY <1>a, <3>1, <3>2
    <3>3. ASSUME NEW v \in Temporaries(p), KeepAwaiter(p, v)
          PROVE  StackSound'
      <4>1. \A d \in Coro : state'[d] = IF d = p THEN "active" ELSE state[d]
        BY <1>0, <3>3 DEF KeepAwaiter, TypeOK
      <4> QED
        BY <1>0, <3>1, <4>1, StackStays DEF Running
    <3> QED
      BY <2>2, <3>2, <3>3 DEF AwaitResumeOwned
  <2> QED
    BY <1>8, <2>1, <2>2 DEF AwaitResume
<1>9. ASSUME NEW p \in Coro, Return(p) \/ Unhandled(p)
      PROVE  StackSound'
  BY <1>0, <1>9, FinalStack DEF Return, Unhandled, TypeOK
<1>10. ASSUME NEW p \in Coro, Throw(p) \/ Catch(p) \/ EndExpression(p)
       PROVE  StackSound'
  BY <1>1, <1>a, <1>10 DEF Throw, Catch, EndExpression, Executing, Running
<1>11. ASSUME NEW p \in Coro, Suspend(p)
       PROVE  StackSound'
  <2>1. /\ p = Top /\ Top # Main /\ stack' = Pop
        /\ state[p] = "active" /\ state'[p] \in {"yield", "event"}
        /\ \A d \in Coro \ {p} : state'[d] = state[d]
    BY <1>0, <1>11, LeafAssumption, DistinctAssumption
    DEF Suspend, Executing, TypeOK
  <2>2. \A d \in Coro : state'[d] # "resume"
    BY <2>1 DEF StackSound
  <2> QED
    BY <1>0, <2>1, <2>2, StackPops DEF Running
<1>12. ASSUME NEW p \in Coro, Wake(p)
       PROVE  StackSound'
  <2>1. /\ CanAct /\ stack' = Append(stack, p)
        /\ state[p] = "event" /\ state'[p] = "active"
        /\ \A d \in Coro \ {p} : state'[d] = state[d]
    BY <1>0, <1>12 DEF Wake, TypeOK
  <2>2. \A d \in Coro : state'[d] = "resume" => d = p
    BY <1>0, <2>1, NobodyResumes
  <2> QED
    BY <1>0, <2>1, <2>2, StackPushes DEF Running
<1>13. CASE UNCHANGED vars
  BY <1>1, <1>13 DEF vars
<1> QED
  BY <1>2, <1>3, <1>4, <1>5, <1>6, <1>7, <1>8, <1>9, <1>10, <1>11, <1>12, <1>13
  DEF Next, TaskStep, BodyStep

(***************************************************************************)
(* Completed coroutines stay empty, and nobody destroys what executes.     *)
(***************************************************************************)

\* Only code that executes fills the Tasks of its frame.
LEMMA FinalStays ==
  ASSUME TypeOK, FinalEmpty,
         \A c \in Coro : state'[c] = "final" => state[c] = "final",
         \A v \in Var : \/ handle'[v] \in {None, handle[v]}
                        \/ Home[v] \in Coro => state[Home[v]] \in {"active", "resume"}
  PROVE  FinalEmpty'
BY DEF FinalEmpty, Done

LEMMA StepFinal ==
  ASSUME Execution, [Next]_vars
  PROVE  FinalEmpty'
<1> USE DEF Execution
<1>0. TypeOK /\ FinalEmpty
  BY DEF Ownership
<1>a. \A v \in Var : Accessible(v) /\ Home[v] \in Coro => state[Home[v]] = "active"
  BY <1>0, AccessibleHome, DistinctAssumption
<1>1. CASE UNCHANGED <<handle, state>>
  BY <1>0, <1>1, FinalStays
<1>2. ASSUME NEW v \in Var, NEW c \in Coro, Create(v, c)
      PROVE  FinalEmpty'
  <2>1. /\ Accessible(v)
        /\ \A d \in Coro : state'[d] = "final" => state[d] = "final"
        /\ \A u \in Var \ {v} : handle'[u] = handle[u]
    BY <1>0, <1>2 DEF Create, TypeOK
  <2> QED
    BY <1>0, <1>a, <2>1, FinalStays
<1>3. ASSUME NEW v \in Var, NEW w \in Var, MoveAssign(v, w)
      PROVE  FinalEmpty'
  <2>1. /\ Accessible(v)
        /\ \A u \in Var \ {v} : handle'[u] \in {None, handle[u]}
        /\ \A c \in Coro : state'[c] = "final" => state[c] = "final"
    <3>1. Accessible(v)
      BY <1>3 DEF MoveAssign
    <3> QED
      BY <1>3, <3>1, MoveEffect
  <2> QED
    BY <1>0, <1>a, <2>1, FinalStays
<1>4. ASSUME NEW v \in Var, Destroy(v)
      PROVE  FinalEmpty'
  <2>1. /\ \A u \in Var : handle'[u] \in {None, handle[u]}
        /\ \A c \in Coro : state'[c] = "final" => state[c] = "final"
    BY <1>4, DestroyDetaches DEF Detached, Cut
  <2> QED
    BY <1>0, <2>1, FinalStays
<1>5. ASSUME NEW v \in Var, Start(v)
      PROVE  FinalEmpty'
  <2>1. CASE StartEmpty(v) \/ StartDone(v)
    BY <1>1, <2>1 DEF StartEmpty, StartDone, Raise, vars
  <2>2. CASE StartResume(v)
    <3>1. /\ handle' = handle
          /\ \A c \in Coro : state'[c] = IF c = handle[v] THEN Entered(c)
                                         ELSE state[c]
      BY <1>0, <2>2 DEF StartResume, TypeOK
    <3> QED
      BY <1>0, <3>1, FinalStays DEF Entered
  <2> QED
    BY <1>5, <2>1, <2>2 DEF Start
<1>6. ASSUME NEW v \in Var, Result(v)
      PROVE  FinalEmpty'
  BY <1>1, <1>6
  DEF Result, ResultUnavailable, ResultKept, ResultMoved, ResultAvailable,
      Raise
<1>7. ASSUME NEW v \in Var, NEW p \in Coro, Await(p, v)
      PROVE  FinalEmpty'
  <2>1. \A u \in Var : handle'[u] \in {None, handle[u]}
    BY <1>7, AwaitEffect
  <2>2. \A c \in Coro : state'[c] = "final" => state[c] = "final"
    BY <1>0, <1>7 DEF Await, AwaitImmediate, AwaitSuspend, Entered, TypeOK
  <2> QED
    BY <1>0, <2>1, <2>2, FinalStays
<1>b. ASSUME NEW p \in Coro, Running(p), EndAwaiters(p)
      PROVE  FinalEmpty'
  <2>1. /\ \A u \in Var : handle'[u] \in {None, handle[u]}
        /\ \A c \in Coro : state'[c] = "final" => state[c] = "final"
    BY <1>b, EndAwaitersDetaches DEF Detached, Cut
  <2> QED
    BY <1>0, <2>1, FinalStays
<1>8. ASSUME NEW p \in Coro, AwaitResume(p)
      PROVE  FinalEmpty'
  <2>1. CASE AwaitResumeEmpty(p)
    BY <1>0, <2>1, FinalStays DEF AwaitResumeEmpty, TypeOK
  <2>2. CASE AwaitResumeOwned(p)
    <3>1. awaiter[p] # None /\ state[p] = "resume" /\ Running(p)
      BY <2>2 DEF AwaitResumeOwned, Running
    <3>2. CASE EndAwaiters(p)
      BY <1>b, <3>1, <3>2
    <3>3. ASSUME NEW v \in Temporaries(p), KeepAwaiter(p, v)
          PROVE  FinalEmpty'
      <4>1. /\ v \in Var /\ Home[v] = p
            /\ \A u \in Var \ {v} : handle'[u] = handle[u]
            /\ \A c \in Coro : state'[c] = IF c = p THEN "active" ELSE state[c]
        BY <3>1, <3>3, KeepAwaiterEffect
      <4>2. \A u \in Var : \/ handle'[u] \in {None, handle[u]}
                           \/ Home[u] \in Coro => state[Home[u]] \in {"active", "resume"}
        BY <3>1, <4>1
      <4>3. \A c \in Coro : state'[c] = "final" => state[c] = "final"
        BY <4>1
      <4> QED
        BY <1>0, <4>2, <4>3, FinalStays
    <3> QED
      BY <2>2, <3>2, <3>3 DEF AwaitResumeOwned
  <2> QED
    BY <1>8, <2>1, <2>2 DEF AwaitResume
<1>9. ASSUME NEW p \in Coro, Return(p) \/ Unhandled(p)
      PROVE  FinalEmpty'
  <2>1. Executing(p) /\ FinalSuspend(p)
    BY <1>9 DEF Return, Unhandled
  <2>2. \A u \in Var : Home[u] = p => handle'[u] = None
    BY <2>1 DEF FinalSuspend, Emptied
  <2>3. \A u \in Var : handle'[u] \in {None, handle[u]}
    BY <2>1, FinalSuspendDetaches DEF Detached
  <2>4. \A c \in Coro : state'[c] = "final" => c = p \/ state[c] = "final"
    BY <2>1 DEF FinalSuspend
  <2> QED
    BY <2>2, <2>3, <2>4 DEF FinalEmpty, Done
<1>10. ASSUME NEW p \in Coro, Throw(p) \/ Catch(p) \/ EndExpression(p)
       PROVE  FinalEmpty'
  BY <1>1, <1>b, <1>10 DEF Throw, Catch, EndExpression, Executing, Running
<1>11. ASSUME NEW p \in Coro, Suspend(p) \/ Wake(p)
       PROVE  FinalEmpty'
  <2>1. /\ handle' = handle
        /\ \A c \in Coro : state'[c] = "final" => state[c] = "final"
    BY <1>0, <1>11, LeafAssumption DEF Suspend, Wake, TypeOK
  <2> QED
    BY <1>0, <2>1, FinalStays
<1>12. CASE UNCHANGED vars
  BY <1>1, <1>12 DEF vars
<1> QED
  BY <1>2, <1>3, <1>4, <1>5, <1>6, <1>7, <1>8, <1>9, <1>10, <1>11, <1>12
  DEF Next, TaskStep, BodyStep

\* A set closed after the step, whose members are suspended then, bounds what
\* await_resume() of x will destroy.
LEMMA IdleNext ==
  ASSUME NEW x \in Coro, NEW S \in SUBSET Coro, ClosedUnderOwns(S)',
         awaiter'[x] \in S \cup {None}, \A c \in S : ~Running(c)'
  PROVE  Idle(Subtree(awaiter[x]))'
BY DEF Idle, Subtree

\* The frame of x is not below the frame it awaits.
LEMMA AwaiterApart ==
  ASSUME Ownership, NEW x \in Coro, Alive(x)
  PROVE  /\ x \notin Subtree(awaiter[x])
         /\ Subtree(awaiter[x]) \in SUBSET Coro
         /\ ClosedUnderOwns(Subtree(awaiter[x]))
         /\ awaiter[x] \in Subtree(awaiter[x]) \cup {None}
<1>1. Detaches(Subtree(awaiter[x]), {}, {x})
  BY DetachAwaiter DEF Ownership
<1>2. x \notin Subtree(awaiter[x])
  BY <1>1, NoCycle DEF Ownership
<1> QED
  BY <1>1, <1>2 DEF Detaches

\* Nobody is about to run await_resume() before the step, and x is after it.
LEMMA ResumeIdleStart ==
  ASSUME Execution, NEW v \in Var, StartResume(v),
         NEW x \in Coro, state'[x] = "resume", awaiter'[x] # None
  PROVE  Idle(Subtree(awaiter[x]))'
<1> USE DEF Execution
<1>1. /\ TypeOK /\ CanAct /\ handle[v] \in Coro /\ Resumable(handle[v])
      /\ handle' = handle /\ awaiter' = awaiter
      /\ \A c \in Coro : state'[c] = IF c = handle[v] THEN Entered(c)
                                     ELSE state[c]
  BY DEF StartResume, Accessible, TypeOK, Ownership
<1>2. x = handle[v] /\ state[x] = "await" /\ Idle(Subtree(awaiter[x]))
  BY <1>1, NobodyResumes DEF Entered, Resumable
<1>3. PICK S \in SUBSET Coro :
        /\ S = Subtree(awaiter[x]) /\ x \notin S /\ ClosedUnderOwns(S)
        /\ awaiter[x] \in S \cup {None}
  BY <1>2, AwaiterApart DEF Alive
<1>4. ClosedUnderOwns(S)'
  BY <1>1, <1>3 DEF ClosedUnderOwns, Owns
<1>5. \A c \in S : ~Running(c)'
  BY <1>1, <1>2, <1>3 DEF Idle, Running
<1> QED
  BY <1>1, <1>3, <1>4, <1>5, IdleNext

LEMMA ResumeIdleAwait ==
  ASSUME Execution, NEW p \in Coro, NEW v \in Var, Await(p, v),
         NEW x \in Coro, state'[x] = "resume", awaiter'[x] # None
  PROVE  Idle(Subtree(awaiter[x]))'
<1> USE DEF Execution
<1>1. /\ TypeOK /\ p = Top /\ CanAct /\ state[p] = "active" /\ Running(p)
      /\ handle[v] \in Coro \cup {None}
      /\ \A c \in Coro : state[c] # "resume"
      /\ \A u \in Var : handle'[u] = IF u = v THEN None ELSE handle[u]
      /\ \A c \in Coro : awaiter'[c] = IF c = p THEN handle[v] ELSE awaiter[c]
  <2>1. p = Top /\ CanAct
    BY DEF Await, AwaitImmediate, AwaitSuspend, ConsumeTask, Accessible
  <2>2. p # Main
    BY DistinctAssumption
  <2> QED
    BY <2>1, <2>2, NobodyResumes, AwaitEffect DEF Ownership, TypeOK
<1>2. CASE AwaitImmediate(p, v)
  <2>1. /\ \A c \in Coro : state'[c] = IF c = p THEN "resume" ELSE state[c]
        /\ AwaitReady(handle[v])
    BY <1>1, <1>2 DEF AwaitImmediate, TypeOK
  <2>2. x = p /\ awaiter'[x] = handle[v] /\ handle[v] # None
    BY <1>1, <2>1
  <2>3. PICK c \in Coro : c = handle[v] /\ Done(c)
    BY <1>1, <2>1, <2>2 DEF AwaitReady
  <2> DEFINE S == {c}
  <2>4. \A d \in Coro : ~Owns(c, d)
    BY <2>3, FinalAlone
  <2>5. c # p
    BY <1>1, <2>3 DEF Done
  <2>6. ClosedUnderOwns(S)'
    BY <1>1, <2>3, <2>4, <2>5, DistinctAssumption DEF ClosedUnderOwns, Owns
  <2>7. ~Running(c)'
    BY <2>1, <2>3, <2>5 DEF Running, Done
  <2> QED
    BY <2>2, <2>3, <2>6, <2>7, IdleNext
<1>3. CASE AwaitSuspend(p, v)
  <2>1. handle[v] \in Coro /\ Resumable(handle[v]) /\ handle[v] # p
    <3>1. handle[v] # None /\ Resumable(handle[v])
      BY <1>3, SuspendsForResumable
    <3> QED
      BY <1>1, <3>1 DEF Resumable
  <2>2. \A c \in Coro : state'[c] = IF c = handle[v] THEN Entered(c)
                                    ELSE IF c = p THEN "await" ELSE state[c]
    BY <1>1, <1>3, <2>1 DEF AwaitSuspend, TypeOK
  <2>3. x = handle[v] /\ x # p /\ state[x] = "await" /\ Idle(Subtree(awaiter[x]))
    BY <1>1, <2>1, <2>2 DEF Entered, Resumable
  <2>4. PICK S \in SUBSET Coro :
          /\ S = Subtree(awaiter[x]) /\ x \notin S /\ ClosedUnderOwns(S)
          /\ awaiter[x] \in S \cup {None} /\ p \notin S
    BY <1>1, <2>3, AwaiterApart DEF Alive, Idle
  <2>5. ClosedUnderOwns(S)'
    BY <1>1, <2>4, DistinctAssumption DEF ClosedUnderOwns, Owns
  <2>6. \A c \in S : ~Running(c)'
    BY <2>2, <2>3, <2>4 DEF Idle, Running
  <2> QED
    BY <1>1, <2>3, <2>4, <2>5, <2>6, IdleNext
<1> QED
  BY <1>2, <1>3 DEF Await

LEMMA ResumeIdleFinal ==
  ASSUME Execution, NEW p \in Coro, Executing(p), FinalSuspend(p),
         NEW x \in Coro, state'[x] = "resume", awaiter'[x] # None
  PROVE  Idle(Subtree(awaiter[x]))'
<1> USE DEF Execution
<1> DEFINE q == continuation[p]
           S == {p}
<1>1. /\ TypeOK /\ p = Top /\ state[p] = "active" /\ q \in Coro \cup {None}
      /\ \A c \in Coro : state[c] # "resume"
  BY DEF Executing, Ownership, TypeOK, StackSound
<1>2. /\ Detached(LocalsOf(p)) /\ state'[p] = "final"
      /\ p \notin LocalsOf(p) /\ q \notin LocalsOf(p)
      /\ \A c \in Coro : c \notin LocalsOf(p) \cup {p, q} => state'[c] = state[c]
  BY FinalSuspendDetaches
<1>3. x = q /\ awaiter[q] = p
  <2>1. x = q
    BY <1>1, <1>2 DEF Detached, Cut
  <2> QED
    BY <2>1, ContinuationAwaits, DistinctAssumption
<1>4. /\ awaiter'[x] = p /\ awaiter[p] = None
      /\ awaiter'[p] = None
  BY <1>1, <1>2, <1>3, DistinctAssumption
  DEF Detached, Cut, Ownership, Linked
<1>5. \A u \in Var : Home[u] = p => handle'[u] = None
  BY DEF FinalSuspend, Emptied
<1>6. ClosedUnderOwns(S)'
  BY <1>4, <1>5, DistinctAssumption DEF ClosedUnderOwns, Owns
<1>7. \A c \in S : ~Running(c)'
  BY <1>2 DEF Running
<1> QED
  BY <1>4, <1>6, <1>7, IdleNext

\* The steps after which somebody is about to run await_resume().
LEMMA EntersResume ==
  ASSUME Execution, [Next]_vars, NEW x \in Coro, state'[x] = "resume"
  PROVE  \/ UNCHANGED vars
         \/ \E v \in Var : StartResume(v) \/ \E p \in Coro : Await(p, v)
         \/ \E p \in Coro : Executing(p) /\ FinalSuspend(p)
<1> USE DEF Execution
<1>0. TypeOK
  BY DEF Ownership
<1>2. ASSUME NEW p \in Coro, AwaitResume(p)
      PROVE  FALSE
  <2>1. /\ p = Top /\ state[p] = "resume"
        /\ state'[p] \in {"active", "dead"}
        /\ \A c \in Coro : c # p => state'[c] \in {state[c], "dead"}
    <3>1. CASE AwaitResumeEmpty(p)
      BY <1>0, <3>1 DEF AwaitResumeEmpty, TypeOK
    <3>2. CASE AwaitResumeOwned(p)
      <4>1. p = Top /\ state[p] = "resume"
        BY <3>2 DEF AwaitResumeOwned
      <4>2. /\ state'[p] \in {"active", "dead"}
            /\ \A c \in Coro : c # p => state'[c] \in {state[c], "dead"}
        BY <1>0, <3>2
        DEF AwaitResumeOwned, EndAwaiters, KeepAwaiter, Destroyed, TypeOK
      <4> QED
        BY <4>1, <4>2
    <3> QED
      BY <1>2, <3>1, <3>2 DEF AwaitResume
  <2> QED
    BY <2>1 DEF StackSound
<1>6. ASSUME CanAct, \A c \in Coro : state'[c] = "resume" => state[c] = "resume"
      PROVE  FALSE
  BY <1>0, <1>6, NobodyResumes
<1>7. ASSUME NEW v \in Var, NEW c \in Coro, Create(v, c)
      PROVE  FALSE
  BY <1>0, <1>6, <1>7 DEF Create, Accessible, TypeOK
<1>8. ASSUME NEW v \in Var, NEW w \in Var, MoveAssign(v, w)
      PROVE  FALSE
  BY <1>6, <1>8 DEF MoveAssign, Accessible, Destroyed
<1>9. ASSUME NEW v \in Var, Destroy(v)
      PROVE  FALSE
  BY <1>6, <1>9 DEF Destroy, Accessible, Destroyed
<1>10. ASSUME NEW v \in Var, StartEmpty(v) \/ Result(v)
       PROVE  FALSE
  BY <1>6, <1>10
  DEF StartEmpty, Result, ResultUnavailable, ResultKept, ResultMoved,
      ResultAvailable, Raise, Accessible
<1>11. ASSUME NEW p \in Coro,
              Throw(p) \/ Catch(p) \/ EndExpression(p) \/ Suspend(p)
       PROVE  FALSE
  <2>1. /\ p = Top /\ state[p] = "active"
        /\ \A c \in Coro : state'[c] = "resume" => state[c] = "resume"
    BY <1>0, <1>11, LeafAssumption
    DEF Throw, Catch, EndExpression, EndAwaiters, Destroyed, Suspend, Executing,
        TypeOK
  <2> QED
    BY <2>1 DEF StackSound
<1>12. ASSUME NEW p \in Coro, Wake(p)
       PROVE  FALSE
  BY <1>0, <1>6, <1>12 DEF Wake, TypeOK
<1>13. ASSUME NEW p \in Coro, Return(p) \/ Unhandled(p)
       PROVE  Executing(p) /\ FinalSuspend(p)
  BY <1>13 DEF Return, Unhandled
<1> QED
  BY <1>2, <1>7, <1>8, <1>9, <1>10, <1>11, <1>12, <1>13
  DEF Next, TaskStep, BodyStep, Start, StartDone

LEMMA StepResumeIdle ==
  ASSUME Execution, [Next]_vars
  PROVE  ResumeIdle'
<1> SUFFICES ASSUME NEW x \in Coro, state'[x] = "resume", awaiter'[x] # None
             PROVE  Idle(Subtree(awaiter[x]))'
  BY DEF ResumeIdle
<1>1. CASE UNCHANGED vars
  BY <1>1
  DEF vars, Execution, ResumeIdle, Idle, Running, Subtree, ClosedUnderOwns, Owns
<1> QED
  BY <1>1, EntersResume, ResumeIdleStart, ResumeIdleAwait, ResumeIdleFinal

LEMMA InitExecution == Init => Execution
<1> SUFFICES ASSUME Init PROVE Execution
  OBVIOUS
<1>1. Ownership
  BY InitOwnership
<1>2. StackSound /\ FinalEmpty /\ ResumeIdle
  BY DEF Init, StackSound, FinalEmpty, ResumeIdle, Running, Done
<1> QED
  BY <1>1, <1>2 DEF Execution

LEMMA ExecutionStep ==
  ASSUME Execution, [Next]_vars
  PROVE  Execution'
<1>1. Ownership'
  BY StepType, StepOwnership DEF Execution, Ownership
<1> QED
  BY <1>1, StepStack, StepFinal, StepResumeIdle DEF Execution

LEMMA ExecutionInvariant == Spec => []Execution
<1>1. Execution /\ [Next]_vars => Execution'
  BY ExecutionStep
<1> QED
  BY <1>1, InitExecution, PTL DEF Spec

\* However resumes nest and transfer, a frame executes at most once, and the
\* resume stack holds exactly the frames that are not suspended.
THEOREM ExecutionIsSound == Spec => []StackSound
BY ExecutionInvariant, PTL DEF Execution

(***************************************************************************)
(* The frame a coroutine awaits.                                           *)
(***************************************************************************)

\* A step changes the Awaiter of a suspended coroutine only by destroying it.
LEMMA AwaiterKept ==
  ASSUME Ownership, [Next]_vars, NEW p \in Coro, state[p] = "await"
  PROVE  awaiter'[p] \in {None, awaiter[p]}
<1>1. CASE awaiter' = awaiter
  BY <1>1
<1>2. ASSUME NEW D, awaiter' = Released(awaiter, D)
      PROVE  awaiter'[p] \in {None, awaiter[p]}
  BY <1>2 DEF Released
<1>3. ASSUME NEW q \in Coro, NEW v \in Var, Await(q, v)
      PROVE  awaiter'[p] \in {None, awaiter[p]}
  BY <1>3, AwaitEffect
<1>4. ASSUME NEW v \in Var,
             \/ \E c \in Coro : Create(v, c)
             \/ Start(v) \/ Result(v)
      PROVE  awaiter' = awaiter
  BY <1>4
  DEF Create, Start, StartEmpty, StartDone, StartResume, Result,
      ResultUnavailable, ResultKept, ResultMoved, ResultAvailable, Raise, vars
<1>5. ASSUME NEW v \in Var, Destroy(v) \/ \E w \in Var : MoveAssign(v, w)
      PROVE  \E D : awaiter' = Released(awaiter, D)
  BY <1>5 DEF Destroy, MoveAssign
<1>6. ASSUME NEW q \in Coro, AwaitResume(q)
      PROVE  awaiter'[p] \in {None, awaiter[p]}
  <2>1. CASE EndAwaiters(q)
    BY <1>2, <2>1 DEF EndAwaiters
  <2>2. ASSUME NEW v, KeepAwaiter(q, v)
        PROVE  awaiter'[p] \in {None, awaiter[p]}
    BY <2>2 DEF KeepAwaiter, Ownership, TypeOK
  <2> QED
    BY <1>1, <1>6, <2>1, <2>2
    DEF AwaitResume, AwaitResumeEmpty, AwaitResumeOwned
<1>7. ASSUME NEW q \in Coro, Return(q) \/ Unhandled(q)
      PROVE  \E D : awaiter' = Released(awaiter, D)
  BY <1>7 DEF Return, Unhandled, FinalSuspend
<1>8. ASSUME NEW q \in Coro, Throw(q) \/ Suspend(q) \/ Wake(q)
      PROVE  awaiter' = awaiter
  BY <1>8 DEF Throw, Suspend, Wake
<1>9. ASSUME NEW q \in Coro, Catch(q) \/ EndExpression(q)
      PROVE  \E D : awaiter' = Released(awaiter, D)
  BY <1>9 DEF Catch, EndExpression, EndAwaiters
<1> QED
  BY <1>1, <1>2, <1>3, <1>4, <1>5, <1>6, <1>7, <1>8, <1>9
  DEF Next, TaskStep, BodyStep, vars

\* The frame a coroutine awaits neither changes nor dies while it waits.
THEOREM AwaitedFramesStay == Spec => AwaitedStaysAlive
<1> DEFINE Stays == \A p \in Coro : state[p] = "await" /\ state'[p] = "await" =>
                      /\ awaiter'[p] = awaiter[p]
                      /\ state'[awaiter[p]] # "dead"
<1>1. Ownership /\ Ownership' /\ [Next]_vars => [Stays]_vars
  <2> SUFFICES ASSUME Ownership, Ownership', [Next]_vars,
                      NEW p \in Coro, state[p] = "await", state'[p] = "await"
               PROVE  awaiter'[p] = awaiter[p] /\ state'[awaiter[p]] # "dead"
    OBVIOUS
  <2>1. awaiter'[p] # None /\ Alive(awaiter[p])'
    BY DEF Ownership, Linked
  <2> QED
    BY <2>1, AwaiterKept DEF Alive
<1> QED
  BY <1>1, OwnershipInvariant, PTL DEF Spec, AwaitedStaysAlive

(***************************************************************************)
(* Clients that leave a Task suspended in co_await alone.                  *)
(***************************************************************************)

\* await_resume() then meets completed Tasks only.
LEMMA StepAwaitDone ==
  ASSUME ~ResumeAwaiting, Execution, AwaitAfterCompletion, [Next]_vars
  PROVE  AwaitAfterCompletion'
<1> USE DEF Execution
<1> SUFFICES ASSUME NEW x \in Coro, state'[x] = "resume", awaiter'[x] # None
             PROVE  Done(awaiter[x])'
  BY DEF AwaitAfterCompletion
<1>0. TypeOK
  BY DEF Ownership
<1>1. CASE UNCHANGED vars
  BY <1>1 DEF vars, AwaitAfterCompletion, Done
<1>2. ASSUME NEW v \in Var, StartResume(v)
      PROVE  FALSE
  <2>1. /\ CanAct
        /\ \A c \in Coro : state'[c] # state[c] => state'[c] = "active"
    BY <1>0, <1>2 DEF StartResume, Accessible, Resumable, Entered, TypeOK
  <2> QED
    BY <1>0, <2>1, NobodyResumes
<1>3. ASSUME NEW v \in Var, NEW p \in Coro, Await(p, v)
      PROVE  Done(awaiter[x])'
  <2>1. /\ \A c \in Coro : state[c] # "resume"
        /\ \A c \in Coro : awaiter'[c] = IF c = p THEN handle[v] ELSE awaiter[c]
        /\ state[p] = "active"
    <3>1. CanAct
      BY <1>3 DEF Await, AwaitImmediate, AwaitSuspend, ConsumeTask, Accessible
    <3> QED
      BY <1>0, <1>3, <3>1, NobodyResumes, AwaitEffect
  <2>2. CASE AwaitImmediate(p, v)
    <3>1. /\ \A c \in Coro : state'[c] = IF c = p THEN "resume" ELSE state[c]
          /\ AwaitReady(handle[v])
      BY <1>0, <2>2 DEF AwaitImmediate, TypeOK
    <3>2. x = p /\ handle[v] \in Coro /\ handle[v] # None
      BY <1>0, <2>1, <3>1 DEF TypeOK
    <3> QED
      BY <2>1, <3>1, <3>2 DEF AwaitReady, Done
  <2>3. CASE AwaitSuspend(p, v)
    <3>1. handle[v] \in Coro /\ Resumable(handle[v])
      BY <1>0, <2>3, SuspendsForResumable DEF TypeOK
    <3>2. state'[x] # "resume"
      BY <1>0, <2>1, <2>3, <3>1 DEF AwaitSuspend, Resumable, Entered, TypeOK
    <3> QED
      BY <3>2
  <2> QED
    BY <1>3, <2>2, <2>3 DEF Await
<1>4. ASSUME NEW p \in Coro, Executing(p), FinalSuspend(p)
      PROVE  Done(awaiter[x])'
  <2>1. /\ \A c \in Coro : state[c] # "resume"
        /\ Detached(LocalsOf(p)) /\ state'[p] = "final"
        /\ \A c \in Coro : c \notin LocalsOf(p) \cup {p, continuation[p]}
                             => state'[c] = state[c]
    BY <1>4, FinalSuspendDetaches DEF Executing, StackSound
  <2>2. x = continuation[p]
    BY <2>1 DEF Detached, Cut
  <2>3. awaiter[x] = p
    BY <1>4, <2>2, ContinuationAwaits, DistinctAssumption
  <2>4. awaiter'[x] = p
    BY <2>1, <2>3 DEF Detached, Cut
  <2> QED
    BY <2>1, <2>4 DEF Done
<1> QED
  BY <1>1, <1>2, <1>3, <1>4, EntersResume

\* What the promise of c and its observers know.  An outcome appears with the
\* end of the body; a value is moved away only by an observer who was given it.
Told(c) ==
  /\ state[c] \notin {"final", "dead"} =>
       obs[c] = {} /\ value[c] = "empty" /\ exception[c] = None
  /\ Done(c) /\ exception[c] = None /\ c \notin VoidCoro =>
       value[c] \in {"engaged", "moved"}
  /\ value[c] = "moved" =>
       exception[c] = None /\ c \notin VoidCoro /\ "engaged" \in obs[c]

Knowledge ==
  /\ Execution
  /\ AwaitAfterCompletion
  /\ \A c \in Coro : Told(c)
  /\ ObservationsFaithful

\* No frame comes back from its end, and only the end of a body brings one there.
LEMMA StateForward ==
  ASSUME Ownership, [Next]_vars, NEW c \in Coro
  PROVE  /\ state[c] \in {"final", "dead"} => state'[c] \in {state[c], "dead"}
         /\ state'[c] = "final" => state[c] = "final" \/ Return(c) \/ Unhandled(c)
<1> DEFINE Forward ==
             /\ state[c] \in {"final", "dead"} => state'[c] \in {state[c], "dead"}
             /\ state'[c] = "final" => state[c] = "final"
<1>0. TypeOK
  BY DEF Ownership
<1>1. CASE state'[c] \in {state[c], "dead"}
  BY <1>1
<1>2. ASSUME NEW v \in Var, NEW d \in Coro, Create(v, d)
      PROVE  Forward
  BY <1>0, <1>2 DEF Create, TypeOK
<1>3. ASSUME NEW v \in Var, Destroy(v) \/ \E w \in Var : MoveAssign(v, w)
      PROVE  state'[c] \in {state[c], "dead"}
  BY <1>3 DEF Destroy, MoveAssign, Destroyed
<1>4. ASSUME NEW v \in Var, Start(v)
      PROVE  Forward
  <2>1. CASE StartEmpty(v) \/ StartDone(v)
    BY <2>1 DEF StartEmpty, StartDone, Raise, vars
  <2>2. CASE StartResume(v)
    BY <1>0, <2>2 DEF StartResume, Resumable, Entered, TypeOK
  <2> QED
    BY <1>4, <2>1, <2>2 DEF Start
<1>5. ASSUME NEW v \in Var, Result(v)
      PROVE  state' = state
  BY <1>5
  DEF Result, ResultUnavailable, ResultKept, ResultMoved, ResultAvailable,
      Raise
<1>6. ASSUME NEW v \in Var, NEW p \in Coro, Await(p, v)
      PROVE  Forward
  <2>1. state[p] = "active"
    BY <1>6, AwaitEffect
  <2>2. CASE AwaitImmediate(p, v)
    BY <1>0, <2>1, <2>2 DEF AwaitImmediate, TypeOK
  <2>3. CASE AwaitSuspend(p, v)
    BY <1>0, <2>1, <2>3, SuspendsForResumable
    DEF AwaitSuspend, Resumable, Entered, TypeOK
  <2> QED
    BY <1>6, <2>2, <2>3 DEF Await
<1>7. ASSUME NEW p \in Coro, AwaitResume(p)
      PROVE  Forward
  BY <1>0, <1>7
  DEF AwaitResume, AwaitResumeEmpty, AwaitResumeOwned, EndAwaiters, KeepAwaiter,
      Destroyed, TypeOK
<1>8. ASSUME NEW p \in Coro, Return(p) \/ Unhandled(p)
      PROVE  /\ state[c] \in {"final", "dead"} => state'[c] \in {state[c], "dead"}
             /\ state'[c] = "final" => state[c] = "final" \/ c = p
  <2>1. Executing(p) /\ FinalSuspend(p)
    BY <1>8 DEF Return, Unhandled
  <2>2. state[p] = "active"
    BY <2>1 DEF Executing
  <2>3. continuation[p] # None => state[continuation[p]] \in {"await", "resume"}
    BY <2>1, ContinuationAwaits
  <2>4. c = continuation[p] => continuation[p] # None
    BY DistinctAssumption
  <2> QED
    BY <2>1, <2>2, <2>3, <2>4 DEF FinalSuspend
<1>9. ASSUME NEW p \in Coro,
             \/ Throw(p) \/ Catch(p) \/ EndExpression(p)
             \/ Suspend(p) \/ Wake(p)
      PROVE  Forward
  BY <1>0, <1>9, LeafAssumption
  DEF Throw, Catch, EndExpression, EndAwaiters, Destroyed, Suspend, Wake,
      Executing, TypeOK
<1> QED
  BY <1>1, <1>2, <1>3, <1>4, <1>5, <1>6, <1>7, <1>8, <1>9
  DEF Next, TaskStep, BodyStep, vars

\* A step that observes nothing and settles nothing.
LEMMA ToldStays ==
  ASSUME Knowledge, [Next]_vars, NEW c \in Coro,
         ~Return(c), ~Unhandled(c),
         obs'[c] = obs[c], value'[c] = value[c], exception'[c] = exception[c]
  PROVE  Told(c)'
<1>1. /\ state[c] \in {"final", "dead"} => state'[c] \in {state[c], "dead"}
      /\ state'[c] = "final" => state[c] = "final"
  BY StateForward DEF Knowledge, Execution
<1>2. Told(c)
  BY DEF Knowledge
<1> QED
  BY <1>1, <1>2 DEF Told, Done

FaithfulTo(c) ==
  obs[c] # {} =>
    IF exception[c] # None THEN obs[c] = {exception[c]}
    ELSE IF c \in VoidCoro THEN obs[c] = {"void"}
    ELSE \/ obs[c] = {"engaged"}
         \/ obs[c] = {"engaged", "moved"} /\ value[c] = "moved"

\* The observers of c are told its outcome, then the value stays or moves away.
LEMMA ObserverTold ==
  ASSUME Knowledge, [Next]_vars, NEW c \in Coro, Done(c), Observe(c),
         UNCHANGED exception, TypeOK,
         \A d \in Coro : ~Return(d) /\ ~Unhandled(d),
         \/ value' = value
         \/ /\ exception[c] = None /\ c \notin VoidCoro
            /\ value' = [value EXCEPT ![c] = "moved"]
  PROVE  \A d \in Coro : Told(d)' /\ FaithfulTo(d)'
<1>1. \A d \in Coro : d # c => obs'[d] = obs[d] /\ value'[d] = value[d]
  BY DEF Observe, TypeOK
<1>2. obs'[c] = obs[c] \cup {Outcome(c)}
  BY DEF Observe, TypeOK
<1>3. \A d \in Coro : FaithfulTo(d) /\ Told(d)
  BY DEF Knowledge, ObservationsFaithful, FaithfulTo
<1>4. state[c] = "final"
  BY DEF Done
<1>6. ASSUME NEW d \in Coro, d # c
      PROVE  Told(d)' /\ FaithfulTo(d)'
  <2>1. FaithfulTo(d)'
    BY <1>1, <1>3, <1>6 DEF FaithfulTo
  <2>2. Told(d)'
    BY <1>1, <1>6, ToldStays
  <2> QED
    BY <2>1, <2>2
<1>7. state'[c] \in {"final", "dead"}
  BY <1>4, StateForward DEF Knowledge, Execution
<1>8. FaithfulTo(c)'
  <2>1. CASE exception[c] # None
    <3>1. Outcome(c) = exception[c] /\ value' = value
      BY <2>1 DEF Outcome, ValueOutcome, VoidOutcome
    <3> QED
      BY <1>2, <1>3, <2>1, <3>1 DEF FaithfulTo
  <2>2. CASE exception[c] = None /\ c \in VoidCoro
    <3>1. Outcome(c) = "void" /\ value' = value
      BY <2>2 DEF Outcome, VoidOutcome
    <3> QED
      BY <1>2, <1>3, <2>2, <3>1 DEF FaithfulTo
  <2>3. CASE exception[c] = None /\ c \notin VoidCoro
    <3>1. Outcome(c) = value[c] /\ value[c] \in {"engaged", "moved"}
      BY <1>3, <2>3 DEF Outcome, ValueOutcome, Told
    <3>2. value[c] = "moved" => "engaged" \in obs[c] /\ value'[c] = "moved"
      BY <1>3 DEF Told, TypeOK
    <3>3. value[c] = "engaged" => obs[c] \in {{}, {"engaged"}}
      BY <1>3, <2>3 DEF FaithfulTo
    <3>4. CASE value[c] = "engaged"
      BY <1>2, <2>3, <3>1, <3>3, <3>4 DEF FaithfulTo
    <3>5. CASE value[c] = "moved"
      <4>1. obs[c] = {"engaged"} \/ obs[c] = {"engaged", "moved"}
        BY <1>3, <2>3, <3>2, <3>5 DEF FaithfulTo
      <4>2. obs'[c] = {"engaged", "moved"}
        BY <1>2, <3>1, <3>5, <4>1
      <4> QED
        BY <2>3, <3>2, <3>5, <4>2 DEF FaithfulTo
    <3> QED
      BY <3>1, <3>4, <3>5
  <2> QED
    BY <2>1, <2>2, <2>3
<1>9. Told(c)'
  <2>1. value'[c] = "moved" \/ value'[c] = value[c]
    BY DEF TypeOK
  <2>2. CASE value'[c] = value[c]
    BY <1>2, <1>3, <1>4, <1>7, <2>2 DEF Told, Done
  <2>3. CASE value'[c] = "moved" /\ value'[c] # value[c]
    <3>1. exception[c] = None /\ c \notin VoidCoro
      BY <2>3
    <3>2. Outcome(c) = "engaged"
      BY <1>3, <2>3, <3>1 DEF Outcome, ValueOutcome, Told
    <3> QED
      BY <1>2, <1>7, <2>3, <3>1, <3>2 DEF Told
  <2> QED
    BY <2>1, <2>2, <2>3
<1> QED
  BY <1>6, <1>8, <1>9

\* The end of a body gives it its outcome; nobody was told anything before.
LEMMA SettlerTold ==
  ASSUME Knowledge, [Next]_vars, NEW p \in Coro, Return(p) \/ Unhandled(p)
  PROVE  \A d \in Coro : Told(d)' /\ FaithfulTo(d)'
<1>0. TypeOK
  BY DEF Knowledge, Execution, Ownership
<1>1. /\ state[p] = "active" /\ obs' = obs /\ state'[p] = "final"
      /\ \A d \in Coro : d # p =>
           value'[d] = value[d] /\ exception'[d] = exception[d]
  <2>1. Executing(p) /\ FinalSuspend(p)
    BY DEF Return, Unhandled
  <2>2. state'[p] = "final"
    BY <2>1, FinalSuspendDetaches DEF Knowledge, Execution
  <2> QED
    BY <1>0, <2>1, <2>2
    DEF Return, Unhandled, ReturnValue, ReturnVoid, Executing, TypeOK
<1>2. \A d \in Coro : Told(d) /\ FaithfulTo(d)
  BY DEF Knowledge, ObservationsFaithful, FaithfulTo
<1>3. obs[p] = {} /\ value[p] = "empty"
  BY <1>1, <1>2 DEF Told
<1>4. ASSUME NEW d \in Coro, d # p
      PROVE  Told(d)' /\ FaithfulTo(d)'
  <2>1. ~Return(d) /\ ~Unhandled(d)
    BY <1>4 DEF Return, Unhandled, Executing
  <2>2. Told(d)'
    BY <1>1, <1>4, <2>1, ToldStays
  <2> QED
    BY <1>1, <1>2, <1>4, <2>2 DEF FaithfulTo
<1>5. FaithfulTo(p)'
  BY <1>1, <1>3 DEF FaithfulTo
<1>6. /\ value'[p] # "moved"
      /\ exception'[p] = None /\ p \notin VoidCoro => value'[p] = "engaged"
  <2>1. CASE Return(p)
    BY <1>0, <1>3, <2>1 DEF Return, ReturnValue, ReturnVoid, TypeOK
  <2>2. CASE Unhandled(p)
    BY <1>0, <1>3, <2>2 DEF Unhandled, TypeOK
  <2> QED
    BY <2>1, <2>2
<1>7. Told(p)'
  BY <1>1, <1>6 DEF Told, Done
<1> QED
  BY <1>4, <1>5, <1>7

\* The other steps tell nobody anything.
LEMMA QuietTold ==
  ASSUME Knowledge, [Next]_vars,
         \A c \in Coro : ~Return(c) /\ ~Unhandled(c),
         UNCHANGED <<obs, value, exception>>
  PROVE  \A d \in Coro : Told(d)' /\ FaithfulTo(d)'
<1>1. \A d \in Coro : Told(d)'
  BY ToldStays
<1>2. \A d \in Coro : FaithfulTo(d)
  BY DEF Knowledge, ObservationsFaithful, FaithfulTo
<1> QED
  BY <1>1, <1>2 DEF FaithfulTo

\* An Awaiter is kept only when await_resume() throws nothing.
LEMMA AwaitResumeMoves ==
  ASSUME TypeOK, NEW p \in Coro, AwaitResumeOwned(p)
  PROVE  \/ EndAwaiters(p) /\ value' = value
         \/ /\ \E v \in Temporaries(p) : KeepAwaiter(p, v)
            /\ exception[awaiter[p]] = None
            /\ value' = MovedOut(awaiter[p])
<1>1. PICK e \in ResumeThrows(p, awaiter[p]) :
        \/ EndAwaiters(p) /\ UNCHANGED value
        \/ /\ e = None
           /\ value' = MovedOut(awaiter[p])
           /\ \E v \in Temporaries(p) : KeepAwaiter(p, v)
  BY DEF AwaitResumeOwned
<1>2. e = None => exception[awaiter[p]] = None
  BY DEF ResumeThrows
<1> QED
  BY <1>1, <1>2

LEMMA StepTold ==
  ASSUME Knowledge, [Next]_vars
  PROVE  \A d \in Coro : Told(d)' /\ FaithfulTo(d)'
<1>0. TypeOK
  BY DEF Knowledge, Execution, Ownership
<1>1. CASE \E p \in Coro : Return(p) \/ Unhandled(p)
  BY <1>1, SettlerTold
<1> SUFFICES ASSUME \A c \in Coro : ~Return(c) /\ ~Unhandled(c)
             PROVE  \A d \in Coro : Told(d)' /\ FaithfulTo(d)'
  BY <1>1
<1>2. ASSUME NEW v \in Var, ResultKept(v) \/ ResultMoved(v)
      PROVE  \A d \in Coro : Told(d)' /\ FaithfulTo(d)'
  <2>1. /\ handle[v] \in Coro /\ Done(handle[v]) /\ Observe(handle[v])
        /\ UNCHANGED exception
    BY <1>0, <1>2
    DEF ResultKept, ResultMoved, ResultAvailable, Completed, TypeOK
  <2> QED
    BY <1>0, <1>2, <2>1, ObserverTold DEF ResultKept, ResultMoved, MovedOut
<1>3. ASSUME NEW p \in Coro, AwaitResumeOwned(p)
      PROVE  \A d \in Coro : Told(d)' /\ FaithfulTo(d)'
  <2>1. /\ awaiter[p] \in Coro /\ Done(awaiter[p]) /\ Observe(awaiter[p])
        /\ UNCHANGED exception
    BY <1>0, <1>3
    DEF AwaitResumeOwned, Knowledge, AwaitAfterCompletion, TypeOK
  <2>2. \/ value' = value
        \/ /\ exception[awaiter[p]] = None /\ awaiter[p] \notin VoidCoro
           /\ value' = [value EXCEPT ![awaiter[p]] = "moved"]
    BY <1>0, <1>3, AwaitResumeMoves DEF MovedOut
  <2> QED
    BY <1>0, <2>1, <2>2, ObserverTold
<1>4. ASSUME UNCHANGED <<obs, value, exception>>
      PROVE  \A d \in Coro : Told(d)' /\ FaithfulTo(d)'
  BY <1>4, QuietTold
<1>5. ASSUME NEW v \in Var,
             \/ \E c \in Coro : Create(v, c)
             \/ \E w \in Var : MoveAssign(v, w)
             \/ Destroy(v) \/ Start(v) \/ ResultUnavailable(v)
             \/ \E p \in Coro : Await(p, v)
      PROVE  UNCHANGED <<obs, value, exception>>
  BY <1>5
  DEF Create, MoveAssign, Destroy, Start, StartEmpty, StartDone, StartResume,
      ResultUnavailable, Raise, Await, AwaitImmediate, AwaitSuspend, vars
<1>6. ASSUME NEW p \in Coro,
             \/ AwaitResumeEmpty(p) \/ Throw(p) \/ Catch(p)
             \/ EndExpression(p) \/ Suspend(p) \/ Wake(p)
      PROVE  UNCHANGED <<obs, value, exception>>
  BY <1>6 DEF AwaitResumeEmpty, Throw, Catch, EndExpression, Suspend, Wake
<1>7. CASE UNCHANGED vars
  BY <1>4, <1>7 DEF vars
<1> QED
  BY <1>2, <1>3, <1>4, <1>5, <1>6, <1>7
  DEF Next, TaskStep, BodyStep, Result, AwaitResume

LEMMA KnowledgeInvariant ==
  ASSUME ~ResumeAwaiting
  PROVE  Spec => []Knowledge
<1>1. Init => Knowledge
  <2> SUFFICES ASSUME Init PROVE Knowledge
    OBVIOUS
  <2>1. Execution
    BY InitExecution
  <2>2. AwaitAfterCompletion /\ ObservationsFaithful
    BY DEF Init, AwaitAfterCompletion, ObservationsFaithful
  <2>3. \A c \in Coro : Told(c)
    BY DEF Init, Told, Done
  <2> QED
    BY <2>1, <2>2, <2>3 DEF Knowledge
<1>2. Knowledge /\ [Next]_vars => Knowledge'
  <2> SUFFICES ASSUME Knowledge, [Next]_vars
               PROVE  Knowledge'
    OBVIOUS
  <2>1. Execution'
    BY ExecutionStep DEF Knowledge
  <2>2. AwaitAfterCompletion'
    BY StepAwaitDone DEF Knowledge
  <2>3. \A c \in Coro : Told(c)' /\ FaithfulTo(c)'
    BY StepTold
  <2>4. ObservationsFaithful'
    BY <2>3 DEF ObservationsFaithful, FaithfulTo
  <2> QED
    BY <2>1, <2>2, <2>3, <2>4 DEF Knowledge
<1> QED
  BY <1>1, <1>2, PTL DEF Spec

\* No await_resume() runs before the awaited Task completed, if nobody resumes
\* a Task that is suspended in a co_await.
THEOREM AwaitedHasCompleted ==
  ASSUME ~ResumeAwaiting
  PROVE  Spec => []AwaitAfterCompletion
BY KnowledgeInvariant, PTL DEF Knowledge

\* Every observer of a Task is then told what its body ended with.
THEOREM ObserversAreTold ==
  ASSUME ~ResumeAwaiting
  PROVE  Spec => []ObservationsFaithful
BY KnowledgeInvariant, PTL DEF Knowledge

(***************************************************************************)
(* Task implements Deferred.                                               *)
(***************************************************************************)

PhaseOf == [c \in Coro |-> Phase(c)]
OutcomeOf == [c \in Coro |-> IF Done(c) THEN Outcome(c) ELSE "empty"]

LEMMA PhaseCases ==
  ASSUME TypeOK, NEW c \in Coro
  PROVE  /\ Phase(c) = "none" <=> state[c] = "unborn"
         /\ Phase(c) = "settled" <=> state[c] = "final"
         /\ Phase(c) = "dropped" <=> state[c] = "dead"
         /\ Phase(c) = "pending" <=> state[c] \notin {"unborn", "final", "dead"}
BY DEF Phase, TypeOK, State

LEMMA PhaseNext ==
  ASSUME TypeOK', NEW c \in Coro
  PROVE  /\ Phase(c)' = "none" <=> state'[c] = "unborn"
         /\ Phase(c)' = "settled" <=> state'[c] = "final"
         /\ Phase(c)' = "dropped" <=> state'[c] = "dead"
         /\ Phase(c)' = "pending" <=> state'[c] \notin {"unborn", "final", "dead"}
BY DEF Phase, TypeOK, State

\* The frames a step takes out existed.
LEMMA DetachedAlive ==
  ASSUME TypeOK, UniqueOwner, NEW D, NEW V \in SUBSET Var, NEW P \in SUBSET Coro,
         Detaches(D, V, P)
  PROVE  \A d \in D : Alive(d)
BY DEF Detaches, Owns, UniqueOwner

\* An outcome changes only with what it is made of.
LEMMA OutcomeStays ==
  ASSUME NEW c \in Coro, value'[c] = value[c], exception'[c] = exception[c]
  PROVE  Outcome(c)' = Outcome(c)
BY DEF Outcome, ValueOutcome, VoidOutcome

\* A step that moves no phase and tells nobody anything is a stutter.
LEMMA PromiseStutters ==
  ASSUME UNCHANGED <<obs, value, exception>>,
         \A c \in Coro : Phase(c)' = Phase(c),
         \A c \in Coro : Done(c)' <=> Done(c)
  PROVE  UNCHANGED Promise!dvars
<1>1. PhaseOf' = PhaseOf
  BY DEF PhaseOf
<1>2. \A c \in Coro : Outcome(c)' = Outcome(c)
  BY OutcomeStays
<1>3. OutcomeOf' = OutcomeOf
  BY <1>2 DEF OutcomeOf
<1> QED
  BY <1>1, <1>3 DEF Promise!dvars, PhaseOf, OutcomeOf

\* The effect of dropping D on phases and outcomes.
LEMMA PromiseDrops ==
  ASSUME TypeOK, TypeOK', NEW D, D \subseteq Coro,
         \A d \in D : Alive(d) /\ state'[d] = "dead",
         \A c \in Coro : c \notin D => Phase(c)' = Phase(c),
         \A c \in Coro : c \notin D =>
           value'[c] = value[c] /\ exception'[c] = exception[c]
  PROVE  /\ Promise!Droppable(D)
         /\ PhaseOf' = Promise!Dropped(PhaseOf, D)
         /\ OutcomeOf' = Promise!Forgotten(OutcomeOf, D)
<1>1. \A d \in D : /\ Phase(d) \in {"pending", "settled"}
                   /\ Phase(d)' = "dropped" /\ ~Done(d)'
  <2> SUFFICES ASSUME NEW d \in D
               PROVE  /\ Phase(d) \in {"pending", "settled"}
                      /\ Phase(d)' = "dropped" /\ ~Done(d)'
    OBVIOUS
  <2> QED
    BY PhaseCases, PhaseNext DEF Alive, Done
<1>2. \A c \in Coro : c \notin D => (Done(c)' <=> Done(c))
  BY PhaseCases, PhaseNext DEF Done
<1>3. \A c \in Coro : c \notin D => Outcome(c)' = Outcome(c)
  BY OutcomeStays
<1>4. Promise!Droppable(D)
  BY <1>1 DEF Promise!Droppable, PhaseOf
<1>5. PhaseOf' = Promise!Dropped(PhaseOf, D)
  BY <1>1 DEF Promise!Dropped, PhaseOf
<1>6. OutcomeOf' = Promise!Forgotten(OutcomeOf, D)
  BY <1>1, <1>2, <1>3 DEF Promise!Forgotten, OutcomeOf
<1> QED
  BY <1>4, <1>5, <1>6

LEMMA CreateBegins ==
  ASSUME TypeOK, TypeOK', NEW v \in Var, NEW c \in Coro, Create(v, c)
  PROVE  Promise!Begin(c)
<1>1. /\ state[c] = "unborn" /\ state'[c] = "start"
      /\ \A d \in Coro : d # c => state'[d] = state[d]
      /\ UNCHANGED <<obs, value, exception>>
  BY DEF Create, TypeOK
<1>2. Phase(c) = "none" /\ Phase(c)' = "pending"
  BY <1>1, PhaseCases, PhaseNext
<1>3. \A d \in Coro : d # c => Phase(d)' = Phase(d)
  BY <1>1 DEF Phase
<1>4. PhaseOf' = [PhaseOf EXCEPT ![c] = "pending"]
  BY <1>2, <1>3 DEF PhaseOf
<1>5. \A d \in Coro : (Done(d)' <=> Done(d)) /\ Outcome(d)' = Outcome(d)
  BY <1>1, OutcomeStays DEF Done
<1>6. OutcomeOf' = OutcomeOf
  BY <1>5 DEF OutcomeOf
<1> QED
  BY <1>1, <1>2, <1>4, <1>6 DEF Promise!Begin, PhaseOf, OutcomeOf

LEMMA DestroyDrops ==
  ASSUME Ownership, TypeOK', NEW v \in Var,
         Destroy(v) \/ \E w \in Var : MoveAssign(v, w)
  PROVE  \E D \in SUBSET Coro : Promise!Drop(D)
<1>0. TypeOK /\ UniqueOwner
  BY DEF Ownership
<1>1. Detaches(Subtree(handle[v]), {v}, {})
  BY <1>0, DetachTask
<1>2. PICK D \in SUBSET Coro : D = Subtree(handle[v]) /\ Detaches(D, {v}, {})
  BY <1>1 DEF Detaches
<1>3. \A d \in D : Alive(d)
  BY <1>0, <1>2, DetachedAlive
<1>4. /\ \A d \in D : state'[d] = "dead"
      /\ \A c \in Coro : c \notin D => state'[c] = state[c]
      /\ UNCHANGED <<obs, value, exception>>
  BY <1>2 DEF Destroy, MoveAssign, Destroyed
<1>5. \A c \in Coro : c \notin D => Phase(c)' = Phase(c)
  BY <1>4 DEF Phase
<1>6. /\ Promise!Droppable(D)
      /\ PhaseOf' = Promise!Dropped(PhaseOf, D)
      /\ OutcomeOf' = Promise!Forgotten(OutcomeOf, D)
  BY <1>0, <1>3, <1>4, <1>5, PromiseDrops
<1> QED
  BY <1>4, <1>6 DEF Promise!Drop, PhaseOf, OutcomeOf

\* What result() and await_resume() hand out is the outcome of Deferred.
LEMMA ObserverSees ==
  ASSUME TypeOK, NEW c \in Coro, Done(c), Observe(c)
  PROVE  /\ PhaseOf[c] = "settled"
         /\ obs' = [obs EXCEPT ![c] = @ \cup {OutcomeOf[c]}]
<1>1. Phase(c) = "settled"
  BY PhaseCases DEF Done
<1> QED
  BY <1>1 DEF Observe, PhaseOf, OutcomeOf

LEMMA ResultSees ==
  ASSUME Knowledge, TypeOK', NEW v \in Var, ResultKept(v)
  PROVE  Promise!See(handle[v], {}) /\ handle[v] \in Coro
<1>0. TypeOK
  BY DEF Knowledge, Execution, Ownership
<1>1. PICK c \in Coro : c = handle[v] /\ Done(c) /\ Observe(c)
  BY <1>0 DEF ResultKept, ResultAvailable, Completed, TypeOK
<1>2. UNCHANGED <<state, value, exception>>
  BY DEF ResultKept, ResultAvailable
<1>3. \A d \in Coro : Phase(d)' = Phase(d)
  BY <1>2 DEF Phase
<1>4. /\ Promise!Droppable({})
      /\ PhaseOf' = Promise!Dropped(PhaseOf, {})
      /\ OutcomeOf' = Promise!Forgotten(OutcomeOf, {})
  BY <1>0, <1>2, <1>3, PromiseDrops
<1>5. PhaseOf[c] = "settled" /\ obs' = [obs EXCEPT ![c] = @ \cup {OutcomeOf[c]}]
  BY <1>0, <1>1, ObserverSees
<1>6. Promise!See(c, {})
  BY <1>4, <1>5 DEF Promise!See, PhaseOf, OutcomeOf
<1> QED
  BY <1>1, <1>6

\* Moving the value out of a completed c is a Take.
LEMMA ValueTakes ==
  ASSUME Knowledge, TypeOK', NEW c \in Coro, Done(c), Observe(c),
         exception[c] = None, c \notin VoidCoro, UNCHANGED exception,
         value' = MovedOut(c),
         \A d \in Coro : Phase(d)' = Phase(d) /\ (Done(d)' <=> Done(d))
  PROVE  Promise!Take(c)
<1>0. TypeOK
  BY DEF Knowledge, Execution, Ownership
<1>1. value' = [value EXCEPT ![c] = "moved"]
  BY DEF MovedOut
<1>2. PhaseOf' = PhaseOf
  BY DEF PhaseOf
<1>3. PhaseOf[c] = "settled" /\ obs' = [obs EXCEPT ![c] = @ \cup {OutcomeOf[c]}]
  BY <1>0, ObserverSees
<1>4. value[c] \in {"engaged", "moved"}
  BY DEF Knowledge, Told
<1>5. Outcome(c) = value[c] /\ Outcome(c)' = "moved"
  BY <1>0, <1>1 DEF Outcome, ValueOutcome, TypeOK
<1>6. \A d \in Coro : d # c => Outcome(d)' = Outcome(d)
  BY <1>0, <1>1, OutcomeStays DEF TypeOK
<1>7. /\ OutcomeOf' = [OutcomeOf EXCEPT ![c] = "moved"]
      /\ OutcomeOf[c] \in {"engaged"} \cup {"moved"}
  BY <1>4, <1>5, <1>6 DEF OutcomeOf
<1> QED
  BY <1>2, <1>3, <1>7 DEF Promise!Take, PhaseOf, OutcomeOf

LEMMA ResultTakes ==
  ASSUME Knowledge, TypeOK', NEW v \in Var, ResultMoved(v)
  PROVE  Promise!Take(handle[v]) /\ handle[v] \in Coro
<1>0. TypeOK
  BY DEF Knowledge, Execution, Ownership
<1>1. PICK c \in Coro : c = handle[v] /\ Done(c) /\ Observe(c)
  BY <1>0 DEF ResultMoved, ResultAvailable, Completed, TypeOK
<1>2. /\ UNCHANGED <<state, exception>>
      /\ exception[c] = None /\ c \notin VoidCoro
      /\ value' = MovedOut(c)
  BY <1>1 DEF ResultMoved, ResultAvailable
<1>3. \A d \in Coro : Phase(d)' = Phase(d) /\ (Done(d)' <=> Done(d))
  BY <1>2 DEF Phase, Done
<1> QED
  BY <1>1, <1>2, <1>3, ValueTakes

\* The end of a full expression drops what its Awaiters own.
LEMMA EndAwaitersDrops ==
  ASSUME Ownership, TypeOK', NEW p \in Coro, Running(p), EndAwaiters(p),
         UNCHANGED <<value, exception>>
  PROVE  \E D \in SUBSET Coro :
           /\ Promise!Droppable(D)
           /\ PhaseOf' = Promise!Dropped(PhaseOf, D)
           /\ OutcomeOf' = Promise!Forgotten(OutcomeOf, D)
<1>0. TypeOK /\ UniqueOwner
  BY DEF Ownership
<1>1. Detaches(AwaitersOf(p), Temporaries(p), {p})
  BY <1>0, DetachAwaiters
<1>2. PICK D \in SUBSET Coro :
        D = AwaitersOf(p) /\ Detaches(D, Temporaries(p), {p})
  BY <1>1 DEF Detaches
<1>3. \A d \in D : Alive(d)
  <2>1. Temporaries(p) \in SUBSET Var /\ {p} \in SUBSET Coro
    BY TempAssumption DEF Temporaries
  <2> QED
    BY <1>0, <1>2, <2>1, DetachedAlive
<1>4. /\ \A d \in D : state'[d] = "dead"
      /\ state[p] \in {"active", "resume"} /\ state'[p] = "active"
      /\ \A d \in Coro : d \notin D \cup {p} => state'[d] = state[d]
  BY <1>2, EndAwaitersDetaches DEF Detached, Cut, Running
<1>5. \A d \in Coro : d \notin D => Phase(d)' = Phase(d)
  <2>1. \A d \in Coro : d \notin D \cup {p} => Phase(d)' = Phase(d)
    BY <1>4 DEF Phase
  <2>2. Phase(p)' = Phase(p)
    BY <1>4 DEF Phase
  <2> QED
    BY <2>1, <2>2
<1>6. /\ Promise!Droppable(D)
      /\ PhaseOf' = Promise!Dropped(PhaseOf, D)
      /\ OutcomeOf' = Promise!Forgotten(OutcomeOf, D)
  BY <1>0, <1>3, <1>4, <1>5, PromiseDrops
<1> QED
  BY <1>6

\* Keeping an Awaiter changes no phase.
LEMMA KeepAwaiterPhases ==
  ASSUME TypeOK, NEW p \in Coro, state[p] = "resume", NEW v, KeepAwaiter(p, v)
  PROVE  \A d \in Coro : Phase(d)' = Phase(d) /\ (Done(d)' <=> Done(d))
<1>1. \A d \in Coro : state'[d] = IF d = p THEN "active" ELSE state[d]
  BY DEF KeepAwaiter, TypeOK
<1>2. \A d \in Coro : d # p => Phase(d)' = Phase(d) /\ (Done(d)' <=> Done(d))
  BY <1>1 DEF Phase, Done
<1>3. Phase(p)' = Phase(p) /\ (Done(p)' <=> Done(p))
  BY <1>1 DEF Phase, Done
<1> QED
  BY <1>2, <1>3

LEMMA AwaitResumeSees ==
  ASSUME Knowledge, TypeOK', NEW p \in Coro, AwaitResumeOwned(p)
  PROVE  \E c \in Coro :
           Promise!Take(c) \/ \E D \in SUBSET Coro : Promise!See(c, D)
<1>0. Ownership /\ TypeOK /\ UniqueOwner
  BY DEF Knowledge, Execution, Ownership
<1>1. PICK c \in Coro : c = awaiter[p] /\ Done(c) /\ Observe(c)
  BY <1>0 DEF AwaitResumeOwned, Knowledge, AwaitAfterCompletion, TypeOK
<1>2. state[p] = "resume" /\ Running(p) /\ UNCHANGED exception
  BY DEF AwaitResumeOwned, Running
<1>3. ASSUME NEW D \in SUBSET Coro, Promise!Droppable(D),
             PhaseOf' = Promise!Dropped(PhaseOf, D),
             OutcomeOf' = Promise!Forgotten(OutcomeOf, D)
      PROVE  Promise!See(c, D)
  <2>1. PhaseOf[c] = "settled" /\ obs' = [obs EXCEPT ![c] = @ \cup {OutcomeOf[c]}]
    BY <1>0, <1>1, ObserverSees
  <2> QED
    BY <1>3, <2>1 DEF Promise!See, PhaseOf, OutcomeOf
<1>4. CASE EndAwaiters(p) /\ value' = value
  <2>1. PICK D \in SUBSET Coro :
          /\ Promise!Droppable(D)
          /\ PhaseOf' = Promise!Dropped(PhaseOf, D)
          /\ OutcomeOf' = Promise!Forgotten(OutcomeOf, D)
    BY <1>0, <1>2, <1>4, EndAwaitersDrops
  <2> QED
    BY <1>3, <2>1
<1>5. CASE /\ \E v \in Temporaries(p) : KeepAwaiter(p, v)
           /\ exception[c] = None /\ value' = MovedOut(c)
  <2>1. \A d \in Coro : Phase(d)' = Phase(d) /\ (Done(d)' <=> Done(d))
    BY <1>0, <1>2, <1>5, KeepAwaiterPhases
  <2>2. CASE c \notin VoidCoro
    BY <1>1, <1>2, <1>5, <2>1, <2>2, ValueTakes
  <2>3. CASE c \in VoidCoro
    <3>1. value' = value
      BY <1>5, <2>3 DEF MovedOut
    <3>2. /\ Promise!Droppable({})
          /\ PhaseOf' = Promise!Dropped(PhaseOf, {})
          /\ OutcomeOf' = Promise!Forgotten(OutcomeOf, {})
      BY <1>0, <1>2, <2>1, <3>1, PromiseDrops
    <3> QED
      BY <1>3, <3>2
  <2> QED
    BY <2>2, <2>3
<1> QED
  BY <1>0, <1>1, <1>4, <1>5, AwaitResumeMoves

LEMMA ExpressionDrops ==
  ASSUME Ownership, TypeOK', NEW p \in Coro, Catch(p) \/ EndExpression(p)
  PROVE  \E D \in SUBSET Coro : Promise!Drop(D)
<1>1. Running(p) /\ EndAwaiters(p) /\ UNCHANGED <<value, exception, obs>>
  BY DEF Catch, EndExpression, Executing, Running
<1>2. PICK D \in SUBSET Coro :
        /\ Promise!Droppable(D)
        /\ PhaseOf' = Promise!Dropped(PhaseOf, D)
        /\ OutcomeOf' = Promise!Forgotten(OutcomeOf, D)
  BY <1>1, EndAwaitersDrops
<1> QED
  BY <1>1, <1>2 DEF Promise!Drop, PhaseOf, OutcomeOf

LEMMA BodySettles ==
  ASSUME Knowledge, TypeOK', NEW p \in Coro, Return(p) \/ Unhandled(p)
  PROVE  \E D \in SUBSET Coro, r \in Exception \cup {"engaged", "void"} :
           Promise!Settle(p, r, D)
<1>0. Ownership /\ TypeOK /\ UniqueOwner
  BY DEF Knowledge, Execution, Ownership
<1>1. Executing(p) /\ FinalSuspend(p) /\ state[p] = "active"
  BY DEF Return, Unhandled, Executing
<1>2. Detaches(LocalsOf(p), {u \in Var : Home[u] = p}, {})
  BY <1>0, DetachLocals
<1>3. PICK D \in SUBSET Coro :
        D = LocalsOf(p) /\ Detaches(D, {u \in Var : Home[u] = p}, {})
  BY <1>2 DEF Detaches
<1>4. \A d \in D : Alive(d)
  BY <1>0, <1>3, DetachedAlive
<1>5. PICK q : q = continuation[p]
  OBVIOUS
<1>6. /\ \A d \in D : state'[d] = "dead"
      /\ p \notin D /\ state'[p] = "final"
      /\ q # None => state'[q] = "resume" /\ q \notin D \cup {p}
      /\ \A d \in Coro : d \notin D \cup {p, q} => state'[d] = state[d]
  BY <1>0, <1>1, <1>3, <1>5, FinalSuspendDetaches DEF Detached, Cut
<1>7. q # None => q \in Coro /\ state[q] \in {"await", "resume"}
  BY <1>0, <1>1, <1>5, ContinuationAwaits
<1>8. \A d \in Coro : d \notin D \cup {p} => Phase(d)' = Phase(d)
  <2> SUFFICES ASSUME NEW d \in Coro, d \notin D \cup {p}
               PROVE  Phase(d)' = Phase(d)
    OBVIOUS
  <2>1. CASE d = q
    BY <1>6, <1>7, <2>1, DistinctAssumption DEF Phase
  <2>2. CASE d # q
    BY <1>6, <2>2 DEF Phase
  <2> QED
    BY <2>1, <2>2
<1>9. Phase(p) = "pending" /\ Phase(p)' = "settled" /\ Done(p)'
  BY <1>0, <1>1, <1>6, PhaseCases, PhaseNext DEF Done
<1>10. /\ obs' = obs
       /\ \A d \in Coro : d # p =>
            value'[d] = value[d] /\ exception'[d] = exception[d]
  BY <1>0 DEF Return, Unhandled, ReturnValue, ReturnVoid, TypeOK
<1>11. \A d \in D : /\ Phase(d) \in {"pending", "settled"}
                    /\ Phase(d)' = "dropped" /\ ~Done(d)'
  <2> SUFFICES ASSUME NEW d \in D
               PROVE  /\ Phase(d) \in {"pending", "settled"}
                      /\ Phase(d)' = "dropped" /\ ~Done(d)'
    OBVIOUS
  <2> QED
    BY <1>0, <1>4, <1>6, PhaseCases, PhaseNext DEF Alive, Done
<1>12. PICK r : r = Outcome(p)'
  OBVIOUS
<1>13. r \in Exception \cup {"engaged", "void"}
  <2>1. \/ exception'[p] \in Exception
        \/ exception'[p] = None /\ (p \notin VoidCoro => value'[p] = "engaged")
    <3>1. CASE Return(p)
      BY <1>0, <3>1 DEF Return, ReturnValue, ReturnVoid, Exception, TypeOK
    <3>2. CASE Unhandled(p)
      BY <1>0, <3>2 DEF Unhandled, TypeOK
    <3> QED
      BY <3>1, <3>2
  <2>2. exception'[p] \in Exception => exception'[p] # None
    BY DistinctAssumption DEF Exception
  <2> QED
    BY <1>12, <2>1, <2>2 DEF Outcome, ValueOutcome, VoidOutcome
<1>14. PhaseOf' = Promise!Dropped([PhaseOf EXCEPT ![p] = "settled"], D)
  BY <1>6, <1>8, <1>9, <1>11 DEF Promise!Dropped, PhaseOf
<1>15. \A d \in Coro : d \notin D \cup {p} =>
         (Done(d)' <=> Done(d)) /\ Outcome(d)' = Outcome(d)
  <2> SUFFICES ASSUME NEW d \in Coro, d \notin D \cup {p}
               PROVE  (Done(d)' <=> Done(d)) /\ Outcome(d)' = Outcome(d)
    OBVIOUS
  <2>1. Done(d)' <=> Done(d)
    BY <1>0, <1>8, PhaseCases, PhaseNext DEF Done
  <2>2. Outcome(d)' = Outcome(d)
    BY <1>10, OutcomeStays
  <2> QED
    BY <2>1, <2>2
<1>16. OutcomeOf' = Promise!Forgotten([OutcomeOf EXCEPT ![p] = r], D)
  BY <1>6, <1>9, <1>11, <1>12, <1>15 DEF Promise!Forgotten, OutcomeOf
<1>17. Promise!Droppable(D)
  BY <1>11 DEF Promise!Droppable, PhaseOf
<1>18. PhaseOf[p] = "pending"
  BY <1>9 DEF PhaseOf
<1>19. Promise!Settle(p, r, D)
  BY <1>6, <1>10, <1>14, <1>16, <1>17, <1>18
  DEF Promise!Settle, PhaseOf, OutcomeOf
<1> QED
  BY <1>13, <1>19

\* The other steps are invisible to those who use the Tasks.
LEMMA QuietPromise ==
  ASSUME ~ResumeAwaiting, Ownership, TypeOK',
         \/ \E v \in Var : \/ Start(v) \/ ResultUnavailable(v)
                           \/ \E p \in Coro : Await(p, v)
         \/ \E p \in Coro : \/ AwaitResumeEmpty(p) \/ Throw(p)
                            \/ Suspend(p) \/ Wake(p)
         \/ UNCHANGED vars
  PROVE  UNCHANGED Promise!dvars
<1>0. TypeOK
  BY DEF Ownership
<1> DEFINE Moving == State \ {"unborn", "final", "dead"}
           Quiet ==
             /\ UNCHANGED <<obs, value, exception>>
             /\ \A c \in Coro : state'[c] # state[c] =>
                  state[c] \in Moving /\ state'[c] \in Moving
<1>1. Quiet
  <2>1. ASSUME NEW v \in Var, StartResume(v)
        PROVE  Quiet
    BY <1>0, <2>1 DEF StartResume, Resumable, Entered, State, TypeOK
  <2>2. ASSUME NEW v \in Var, NEW p \in Coro, Await(p, v)
        PROVE  Quiet
    <3>1. state[p] = "active"
      BY <2>2, AwaitEffect
    <3>2. CASE AwaitImmediate(p, v)
      BY <1>0, <3>1, <3>2 DEF AwaitImmediate, State, TypeOK
    <3>3. CASE AwaitSuspend(p, v)
      BY <1>0, <3>1, <3>3, SuspendsForResumable
      DEF AwaitSuspend, Resumable, Entered, State, TypeOK
    <3> QED
      BY <2>2, <3>2, <3>3 DEF Await
  <2>3. ASSUME NEW v \in Var, StartEmpty(v) \/ StartDone(v) \/ ResultUnavailable(v)
        PROVE  Quiet
    BY <2>3 DEF StartEmpty, StartDone, ResultUnavailable, Raise, vars
  <2>4. ASSUME NEW p \in Coro,
               AwaitResumeEmpty(p) \/ Throw(p) \/ Suspend(p) \/ Wake(p)
        PROVE  Quiet
    BY <1>0, <2>4, LeafAssumption
    DEF AwaitResumeEmpty, Throw, Suspend, Wake, Executing, State, TypeOK
  <2>5. CASE UNCHANGED vars
    BY <2>5 DEF vars
  <2> QED
    BY <2>1, <2>2, <2>3, <2>4, <2>5 DEF Start
<1>2. ASSUME NEW c \in Coro
      PROVE  Phase(c)' = Phase(c) /\ (Done(c)' <=> Done(c))
  <2>1. CASE state'[c] = state[c]
    BY <2>1 DEF Phase, Done
  <2>2. CASE state[c] \in Moving /\ state'[c] \in Moving
    BY <2>2 DEF Phase, Done
  <2> QED
    BY <1>1, <2>1, <2>2
<1> QED
  BY <1>1, <1>2, PromiseStutters

LEMMA StepPromise ==
  ASSUME ~ResumeAwaiting, Knowledge, TypeOK', [Next]_vars
  PROVE  [Promise!DNext]_(Promise!dvars)
<1>0. Ownership /\ TypeOK
  BY DEF Knowledge, Execution, Ownership
<1>1. ASSUME NEW v \in Var, NEW c \in Coro, Create(v, c)
      PROVE  Promise!DNext
  BY <1>0, <1>1, CreateBegins DEF Promise!DNext
<1>2. ASSUME NEW v \in Var, Destroy(v) \/ \E w \in Var : MoveAssign(v, w)
      PROVE  Promise!DNext
  BY <1>0, <1>2, DestroyDrops DEF Promise!DNext
<1>3. ASSUME NEW v \in Var, ResultKept(v)
      PROVE  Promise!DNext
  <2>1. Promise!See(handle[v], {}) /\ handle[v] \in Coro /\ {} \in SUBSET Coro
    BY <1>3, ResultSees
  <2> QED
    BY <2>1 DEF Promise!DNext
<1>4. ASSUME NEW v \in Var, ResultMoved(v)
      PROVE  Promise!DNext
  BY <1>4, ResultTakes DEF Promise!DNext
<1>5. ASSUME NEW p \in Coro, AwaitResumeOwned(p)
      PROVE  Promise!DNext
  BY <1>5, AwaitResumeSees DEF Promise!DNext
<1>6. ASSUME NEW p \in Coro, Return(p) \/ Unhandled(p)
      PROVE  Promise!DNext
  BY <1>6, BodySettles DEF Promise!DNext
<1>7. ASSUME NEW p \in Coro, Catch(p) \/ EndExpression(p)
      PROVE  Promise!DNext
  BY <1>0, <1>7, ExpressionDrops DEF Promise!DNext
<1> QED
  BY <1>0, <1>1, <1>2, <1>3, <1>4, <1>5, <1>6, <1>7, QuietPromise
  DEF Next, TaskStep, BodyStep, Result, AwaitResume

\* Task implements deferred computations that settle once, with one outcome,
\* and show it to those who ask until one of them takes it away.
THEOREM TaskImplementsDeferred ==
  ASSUME ~ResumeAwaiting
  PROVE  Spec => ImplementsDeferred
<1>1. Init => Promise!DInit
  <2> SUFFICES ASSUME Init PROVE Promise!DInit
    OBVIOUS
  <2>1. \A c \in Coro : Phase(c) = "none" /\ ~Done(c)
    BY DEF Init, Phase, Done
  <2>2. PhaseOf = [c \in Coro |-> "none"] /\ OutcomeOf = [c \in Coro |-> "empty"]
    BY <2>1 DEF PhaseOf, OutcomeOf
  <2> QED
    BY <2>2 DEF Promise!DInit, PhaseOf, OutcomeOf, Init
<1>2. Knowledge /\ Knowledge' /\ [Next]_vars => [Promise!DNext]_(Promise!dvars)
  <2>1. Knowledge' => TypeOK'
    BY DEF Knowledge, Execution, Ownership
  <2> QED
    BY <2>1, StepPromise
<1> QED
  BY <1>1, <1>2, KnowledgeInvariant, PTL DEF Spec, ImplementsDeferred, Promise!DSpec

=============================================================================
