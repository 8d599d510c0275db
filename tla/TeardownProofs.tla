--------------------------- MODULE TeardownProofs ---------------------------
(***************************************************************************)
(* Proofs about Teardown, for any number of frames and Tasks: reset() never*)
(* runs twice on a Task nor destroy() on a frame, handles stay sound while *)
(* destructors run, no frame is forgotten, and when reset() returns the    *)
(* whole tree that hung from its Task has ended.                           *)
(*                                                                         *)
(* None of this is inductive by itself.  Discipline adds how the calls     *)
(* nest, that what the destructions in progress have still to reach spares *)
(* the Tasks of the outermost call (Spared), and that no frame will hang   *)
(* from a Task inside it, even when the calls return (Acyclic).            *)
(***************************************************************************)
EXTENDS Teardown, SequenceTheorems, TLAPS

-----------------------------------------------------------------------------
(* Trees of frames, for the handles h.                                     *)

\* A set of frames with everything that hangs from it.
Closed(h, S) == \A v \in Var : Home[v] \in S /\ h[v] # None => h[v] \in S

Tree(h, f) ==
  {g \in Frame :
     f # None /\ \A S \in SUBSET Frame : f \in S /\ Closed(h, S) => g \in S}

LEMMA SubtreeIsTree == \A f : Subtree(f) = Tree(handle, f)
BY DEF Subtree, Tree, Closed

Handles == [Var -> Frame \cup {None}]

LEMMA TreeOfNone == \A h : Tree(h, None) = {}
BY DEF Tree

LEMMA TreeRoot ==
  ASSUME NEW h, NEW f \in Frame
  PROVE  f \in Tree(h, f)
BY DistinctAssumption DEF Tree

LEMMA TreeLeast ==
  ASSUME NEW h, NEW S \in SUBSET Frame, Closed(h, S), NEW f,
         f = None \/ f \in S
  PROVE  Tree(h, f) \subseteq S
BY DEF Tree

LEMMA TreeClosed ==
  ASSUME NEW h \in Handles, NEW f
  PROVE  Tree(h, f) \in SUBSET Frame /\ Closed(h, Tree(h, f))
<1>1. Tree(h, f) \in SUBSET Frame
  BY DEF Tree
<1>2. ASSUME NEW v \in Var, Home[v] \in Tree(h, f), h[v] # None
      PROVE  h[v] \in Tree(h, f)
  <2>1. f # None /\ h[v] \in Frame
    BY <1>2 DEF Tree, Handles
  <2>2. ASSUME NEW S \in SUBSET Frame, f \in S, Closed(h, S)
        PROVE  h[v] \in S
    <3>1. Home[v] \in S
      BY <1>2, <2>2 DEF Tree
    <3>. QED
      BY <1>2, <2>2, <3>1 DEF Closed
  <2>. QED
    BY <2>1, <2>2 DEF Tree
<1>. QED
  BY <1>1, <1>2 DEF Closed

\* What hangs from a frame of a tree is in the tree.
LEMMA TreeNested ==
  ASSUME NEW h \in Handles, NEW f, NEW v \in Var, Home[v] \in Tree(h, f)
  PROVE  Tree(h, h[v]) \subseteq Tree(h, f)
<1>1. h[v] = None \/ h[v] \in Tree(h, f)
  BY TreeClosed DEF Closed
<1>. QED
  BY <1>1, TreeClosed, TreeLeast

\* A step that gives no Task in a frame another frame lets no tree grow.
LEMMA TreeShrinks ==
  ASSUME NEW h \in Handles, NEW g \in Handles, NEW f,
         \A v \in Var : Home[v] \in Frame => g[v] \in {h[v], None}
  PROVE  Tree(g, f) \subseteq Tree(h, f)
<1>1. Tree(h, f) \in SUBSET Frame /\ Closed(h, Tree(h, f))
  BY TreeClosed
<1>2. Closed(g, Tree(h, f))
  BY <1>1 DEF Closed
<1>3. CASE f = None
  BY <1>3, TreeOfNone
<1>4. CASE f # None
  <2>1. CASE f \in Frame
    BY <2>1, <1>1, <1>2, TreeRoot, TreeLeast
  <2>2. CASE f \notin Frame
    <3>1. \A S \in SUBSET Frame : f \notin S
      BY <2>2
    <3>. QED
      BY <3>1, <1>4 DEF Tree
  <2>. QED
    BY <2>1, <2>2
<1>. QED
  BY <1>3, <1>4

\* A root that is nowhere in the tree of f may be given any frames.
LEMMA TreeElsewhere ==
  ASSUME NEW h \in Handles, NEW g \in Handles, NEW f \in Frame,
         \A v \in Var : Home[v] \in Tree(h, f) => g[v] \in {h[v], None}
  PROVE  Tree(g, f) \subseteq Tree(h, f)
<1>1. Tree(h, f) \in SUBSET Frame /\ Closed(h, Tree(h, f))
  BY TreeClosed
<1>2. Closed(g, Tree(h, f))
  BY <1>1 DEF Closed
<1>. QED
  BY <1>1, <1>2, TreeRoot, TreeLeast

\* One Task is given the frame e: the trees that reach the Task grow by the
\* tree of e and nothing else.
Grafts(h, g, v, e) ==
  g[v] = e /\ \A u \in Var : u # v => g[u] \in {h[u], None}

LEMMA TreeGrafts ==
  ASSUME NEW h \in Handles, NEW g \in Handles, NEW f \in Frame, NEW e \in Frame,
         NEW v \in Var, Grafts(h, g, v, e)
  PROVE  Tree(g, f) \subseteq Tree(h, f) \cup Tree(h, e)
<1>. DEFINE S == Tree(h, f) \cup Tree(h, e)
<1>1. /\ Tree(h, f) \in SUBSET Frame /\ Closed(h, Tree(h, f))
      /\ Tree(h, e) \in SUBSET Frame /\ Closed(h, Tree(h, e))
  BY TreeClosed
<1>2. f \in S /\ e \in S
  BY TreeRoot
<1>3. Closed(g, S)
  BY <1>1, <1>2 DEF Closed, Grafts
<1>. HIDE DEF S
<1>4. S \in SUBSET Frame
  BY <1>1 DEF S
<1>5. Tree(g, f) \subseteq S
  BY <1>2, <1>3, <1>4, TreeLeast
<1>. QED
  BY <1>5 DEF S

-----------------------------------------------------------------------------
(* Where handles land, for the calls s in progress.                        *)

Flows(s, S) ==
  \A i \in DOMAIN s : s[i].next # "unwind" /\ s[i].from \in S => s[i].self \in S

Lands(s, v) ==
  {u \in Var : \A S \in SUBSET Var : v \in S /\ Flows(s, S) => u \in S}

LEMMA LandingIsLands == \A v : Landing(v) = Lands(stack, v)
BY DEF Landing, Lands, Flows, InOperation

\* An assignment in progress will move the handle of w to v.
Arrow(s, w, v) ==
  \E i \in DOMAIN s : s[i].next # "unwind" /\ s[i].from = w /\ s[i].self = v

LEMMA LandsHere ==
  ASSUME NEW s, NEW v \in Var
  PROVE  v \in Lands(s, v)
BY DEF Lands

LEMMA LandsLeast ==
  ASSUME NEW s, NEW v, NEW S \in SUBSET Var, v \in S, Flows(s, S)
  PROVE  Lands(s, v) \subseteq S
BY DEF Lands

LEMMA LandsFlows ==
  ASSUME NEW s, NEW x, NEW w \in Lands(s, x), NEW v \in Var, Arrow(s, w, v)
  PROVE  v \in Lands(s, x)
<1>1. ASSUME NEW S \in SUBSET Var, x \in S, Flows(s, S)
      PROVE  v \in S
  <2>1. w \in S
    BY <1>1 DEF Lands
  <2>. QED
    BY <1>1, <2>1 DEF Arrow, Flows
<1>. QED
  BY <1>1 DEF Lands

\* Every assignment of s is one of t.
Fewer(s, t) == \A w, v \in Var : Arrow(s, w, v) => Arrow(t, w, v)

TypedCalls(s) ==
  \A i \in DOMAIN s : s[i].next # "unwind" =>
    s[i].self \in Var /\ s[i].from \in Var \cup {None}

LEMMA FlowsByArrow ==
  ASSUME NEW s, TypedCalls(s), NEW S \in SUBSET Var,
         \A w, v \in Var : w \in S /\ Arrow(s, w, v) => v \in S
  PROVE  Flows(s, S)
<1>. SUFFICES ASSUME NEW i \in DOMAIN s, s[i].next # "unwind", s[i].from \in S
              PROVE  s[i].self \in S
  BY DEF Flows
<1>1. s[i].self \in Var /\ s[i].from \in Var
  BY DEF TypedCalls
<1>2. Arrow(s, s[i].from, s[i].self)
  BY DEF Arrow
<1>. QED
  BY <1>1, <1>2

LEMMA LandsFewer ==
  ASSUME NEW s, TypedCalls(s), NEW t, Fewer(s, t), NEW v \in Var
  PROVE  Lands(s, v) \subseteq Lands(t, v)
<1>1. Lands(t, v) \in SUBSET Var
  BY DEF Lands
<1>2. Flows(s, Lands(t, v))
  BY <1>1, FlowsByArrow, LandsFlows DEF Fewer
<1>. QED
  BY <1>1, <1>2, LandsHere, LandsLeast

\* s has one more assignment, v = std::move(w).
OneMore(s, t, w, v) ==
  \A x, y \in Var : Arrow(s, x, y) => Arrow(t, x, y) \/ (x = w /\ y = v)

\* Only what lands in w lands further.
LEMMA LandsWith ==
  ASSUME NEW s, TypedCalls(s), NEW t, NEW v \in Var, NEW w \in Var,
         OneMore(s, t, w, v),
         NEW x \in Var
  PROVE  /\ Lands(s, x) \subseteq Lands(t, x) \cup Lands(t, v)
         /\ w \notin Lands(t, x) => Lands(s, x) \subseteq Lands(t, x)
<1>1. /\ Lands(t, x) \in SUBSET Var /\ Lands(t, v) \in SUBSET Var
      /\ x \in Lands(t, x) /\ v \in Lands(t, v)
  BY LandsHere DEF Lands
<1>. DEFINE S == Lands(t, x) \cup Lands(t, v)
<1>2. Flows(s, S)
  BY <1>1, FlowsByArrow, LandsFlows DEF OneMore
<1>3. ASSUME w \notin Lands(t, x)
      PROVE  Flows(s, Lands(t, x))
  BY <1>1, <1>3, FlowsByArrow, LandsFlows DEF OneMore
<1>. QED
  BY <1>1, <1>2, <1>3, LandsLeast

\* Nothing lands in a Task that is not being assigned to.
LEMMA LandsOnlyInSelf ==
  ASSUME NEW s, TypedCalls(s), NEW x \in Var, NEW v \in Var, v # x,
         \A w \in Var : ~Arrow(s, w, v)
  PROVE  v \notin Lands(s, x)
<1>1. Flows(s, Var \ {v})
  BY FlowsByArrow
<1>2. Var \ {v} \in SUBSET Var /\ x \in Var \ {v}
  OBVIOUS
<1>. QED
  BY <1>1, <1>2, LandsLeast

-----------------------------------------------------------------------------
(* The stack, before and after a step.                                     *)

Call == Operations \cup Destructions
Depth == Len(stack)

LEMMA StackTypes ==
  ASSUME TypeOK
  PROVE  /\ Depth \in Nat /\ DOMAIN stack = 1..Depth /\ stack \in Seq(Call)
         /\ \A i \in 1..Depth : /\ InOperation(i) => stack[i] \in Operations
                                /\ ~InOperation(i) => stack[i] \in Destructions
<1>1. stack \in Seq(Call)
  BY DEF TypeOK, Call
<1>2. Depth \in Nat /\ DOMAIN stack = 1..Depth
  BY <1>1 DEF Depth
<1>3. ASSUME NEW i \in 1..Depth
      PROVE  /\ InOperation(i) => stack[i] \in Operations
             /\ ~InOperation(i) => stack[i] \in Destructions
  <2>1. stack[i] \in Call
    BY <1>1, <1>2
  <2>2. CASE stack[i] \in Operations
    <3>1. stack[i].next \in {"test", "clear", "take"}
      BY <2>2 DEF Operations
    <3>. QED
      BY <2>2, <3>1 DEF InOperation
  <2>3. CASE stack[i] \in Destructions
    <3>1. stack[i].next = "unwind"
      BY <2>3 DEF Destructions
    <3>. QED
      BY <2>3, <3>1 DEF InOperation
  <2>. QED
    BY <2>1, <2>2, <2>3 DEF Call
<1>. QED
  BY <1>1, <1>2, <1>3

LEMMA TypedStack == TypeOK => TypedCalls(stack)
BY StackTypes DEF TypedCalls, InOperation, Operations

\* The call i goes on as before, perhaps with its source touched.
Alike(i) ==
  /\ stack'[i].next = stack[i].next
  /\ InOperation(i) =>
       /\ stack'[i].self = stack[i].self /\ stack'[i].from = stack[i].from
       /\ stack'[i].had = stack[i].had /\ stack'[i].ends = stack[i].ends
       /\ ~stack'[i].touched => ~stack[i].touched
  /\ ~InOperation(i) => stack'[i] = stack[i]

LEMMA OperationFields ==
  ASSUME TypeOK, NEW v \in Var, NEW w \in Var \cup {None}
  PROVE  /\ Operation(v, w) \in Operations
         /\ Operation(v, w).self = v /\ Operation(v, w).from = w
         /\ Operation(v, w).next = "test"
         /\ Operation(v, w).ends = Subtree(handle[v])
         /\ w # None => Operation(v, w).had = handle[w]
<1>1. Subtree(handle[v]) \in SUBSET Frame
  BY DEF Subtree
<1>2. (IF w = None THEN None ELSE handle[w]) \in Frame \cup {None}
  BY DEF TypeOK
<1>. QED
  BY <1>1, <1>2 DEF Operation, Operations

\* The call i after the program used the Tasks in V.
WithTouch(V, i) ==
  IF InOperation(i) /\ stack[i].from \in V
  THEN [stack[i] EXCEPT !.touched = TRUE] ELSE stack[i]

LEMMA TouchedCalls ==
  ASSUME TypeOK, NEW V
  PROVE  /\ Touched(V) \in Seq(Call) /\ Len(Touched(V)) = Depth
         /\ \A i \in 1..Depth : Touched(V)[i] = WithTouch(V, i)
<1>. DEFINE t == Touched(V)
<1>1. t = [i \in 1..Depth |-> WithTouch(V, i)]
  BY StackTypes DEF Touched, WithTouch
<1>2. ASSUME NEW i \in 1..Depth
      PROVE  WithTouch(V, i) \in Call
  <2>1. CASE InOperation(i) /\ stack[i].from \in V
    <3>1. [stack[i] EXCEPT !.touched = TRUE] \in Operations
      BY <2>1, StackTypes DEF Operations
    <3>. QED
      BY <2>1, <3>1 DEF Call, WithTouch
  <2>2. CASE ~(InOperation(i) /\ stack[i].from \in V)
    BY <2>2, StackTypes DEF WithTouch
  <2>. QED
    BY <2>1, <2>2
<1>. HIDE DEF t
<1>3. t \in [1..Depth -> Call] /\ DOMAIN t = 1..Depth
  BY <1>1, <1>2
<1>4. t \in Seq(Call) /\ Len(t) = Depth
  BY <1>3, StackTypes
<1>. QED
  BY <1>1, <1>4 DEF t

LEMMA TouchedAlike ==
  ASSUME TypeOK, NEW V, NEW i \in 1..Depth, stack'[i] = WithTouch(V, i)
  PROVE  /\ Alike(i)
         /\ InOperation(i) /\ ~stack'[i].touched => stack[i].from \notin V
<1>1. CASE InOperation(i) /\ stack[i].from \in V
  <2>1. stack[i] \in Operations
    BY <1>1, StackTypes
  <2>2. stack'[i] = [stack[i] EXCEPT !.touched = TRUE]
    BY <1>1 DEF WithTouch
  <2>3. /\ stack'[i].next = stack[i].next
        /\ stack'[i].self = stack[i].self /\ stack'[i].from = stack[i].from
        /\ stack'[i].had = stack[i].had /\ stack'[i].ends = stack[i].ends
        /\ stack'[i].touched = TRUE
    BY <2>1, <2>2 DEF Operations
  <2>. QED
    BY <1>1, <2>3 DEF Alike
<1>2. CASE ~(InOperation(i) /\ stack[i].from \in V)
  <2>1. stack'[i] = stack[i]
    BY <1>2 DEF WithTouch
  <2>. QED
    BY <1>2, <2>1 DEF Alike
<1>. QED
  BY <1>1, <1>2

LEMMA Appended ==
  ASSUME NEW S, NEW s \in Seq(S), NEW x \in S
  PROVE  /\ Append(s, x) \in Seq(S)
         /\ Len(Append(s, x)) = Len(s) + 1
         /\ Append(s, x)[Len(s) + 1] = x
         /\ \A i \in 1..Len(s) : Append(s, x)[i] = s[i]
OBVIOUS

\* Where the step starts from.
LEMMA AtDepth ==
  ASSUME TypeOK, NEW n, At(n)
  PROVE  /\ Depth \in 1..Depth /\ Depth >= 1 /\ Top = stack[Depth]
         /\ stack[Depth].next = n
         /\ n = "unwind" => ~InOperation(Depth) /\ stack[Depth] \in Destructions
         /\ n # "unwind" => InOperation(Depth) /\ stack[Depth] \in Operations
<1>1. Depth \in Nat /\ Depth # 0
  BY StackTypes DEF At, Depth
<1>2. Top = stack[Depth] /\ stack[Depth].next = n
  BY DEF At, Top, Depth
<1>. QED
  BY <1>1, <1>2, StackTypes DEF InOperation

LEMMA UsableDepth ==
  ASSUME TypeOK, NEW v \in Var, Usable(v)
  PROVE  /\ Depth = 0 \/ (At("unwind") /\ Home[v] = Main)
         /\ \A i \in 1..Depth : InOperation(i) => stack[i].self # v
         /\ Home[v] # Main => frame[Home[v]] = "suspended"
<1>1. \A i \in 1..Depth : InOperation(i) => stack[i].self # v
  BY StackTypes DEF Usable, Busy
<1>. QED
  BY <1>1 DEF Usable, Depth

\* How the stack changes: the calls below the innermost one stay as they are.
Below(k) == \A i \in 1..k : Alike(i)

Pushed(x) == Len(stack') = Depth + 1 /\ stack'[Depth + 1] = x

Popped == Len(stack') = Depth - 1 /\ Below(Depth - 1)

\* operator= goes on.
ToTake ==
  /\ Len(stack') = Depth /\ Below(Depth - 1)
  /\ stack'[Depth] = [stack[Depth] EXCEPT !.next = "take"]

LEMMA SameAlike ==
  ASSUME NEW i, stack'[i] = stack[i]
  PROVE  Alike(i)
BY DEF Alike

LEMMA CallPushed ==
  ASSUME TypeOK, NEW V, NEW v \in Var, NEW w \in Var \cup {None},
         stack' = Append(Touched(V), Operation(v, w))
  PROVE  /\ stack' \in Seq(Call) /\ Pushed(Operation(v, w)) /\ Below(Depth)
         /\ \A i \in 1..Depth :
              InOperation(i) /\ ~stack'[i].touched => stack[i].from \notin V
<1>. DEFINE t == Touched(V)
<1>1. t \in Seq(Call) /\ Len(t) = Depth
  BY TouchedCalls
<1>2. Operation(v, w) \in Call
  BY OperationFields DEF Call
<1>3. \A i \in 1..Depth : t[i] = WithTouch(V, i)
  BY TouchedCalls
<1>4. stack' = Append(t, Operation(v, w))
  OBVIOUS
<1>. HIDE DEF t
<1>5. /\ stack' \in Seq(Call) /\ Pushed(Operation(v, w))
      /\ \A i \in 1..Depth : stack'[i] = WithTouch(V, i)
  BY <1>1, <1>2, <1>3, <1>4, Appended DEF Pushed
<1>. QED
  BY <1>5, TouchedAlike DEF Below

\* A call is replaced at the top of the stack, and another one pushed.
LEMMA TopChanged ==
  ASSUME TypeOK, stack # <<>>, NEW t,
         NEW c \in Call, t = [stack EXCEPT ![Len(stack)] = c]
  PROVE  /\ t \in Seq(Call) /\ Len(t) = Depth /\ t[Depth] = c
         /\ \A i \in 1..(Depth - 1) : t[i] = stack[i]
<1>1. stack \in Seq(Call) /\ Depth \in Nat /\ Depth # 0
  BY StackTypes DEF Depth
<1>. QED
  BY <1>1 DEF Depth

LEMMA GoneTo ==
  ASSUME TypeOK, NEW n, At(n), n # "unwind", NEW m \in {"clear", "take"}
  PROVE  /\ Goto(m) = [stack EXCEPT ![Len(stack)] =
                          [stack[Depth] EXCEPT !.next = m]]
         /\ [stack[Depth] EXCEPT !.next = m] \in Operations
<1>1. stack[Depth] \in Operations
  BY AtDepth
<1>. QED
  BY <1>1 DEF Goto, Operations, Depth

LEMMA StackPopped ==
  ASSUME TypeOK, stack # <<>>, stack' = Pop
  PROVE  stack' \in Seq(Call) /\ Popped
<1>1. stack \in Seq(Call) /\ Depth \in Nat /\ Depth # 0
  BY StackTypes DEF Depth
<1>2. /\ stack' \in Seq(Call) /\ Len(stack') = Depth - 1
      /\ \A i \in 1..(Depth - 1) : stack'[i] = stack[i]
  <2>1. stack' = SubSeq(stack, 1, Depth - 1)
    BY DEF Pop, Depth
  <2>2. \A i \in 1..(Depth - 1) : stack[i] \in Call
    BY <1>1, StackTypes
  <2>3. /\ stack' \in Seq(Call)
        /\ Len(stack') = IF 1 <= Depth - 1 THEN Depth - 1 - 1 + 1 ELSE 0
        /\ \A i \in 1..(Depth - 1 - 1 + 1) : stack'[i] = stack[1 + i - 1]
    BY <1>1, <2>1, <2>2, SubSeqProperties
  <2>. QED
    BY <1>1, <2>3
<1>. QED
  BY <1>2, SameAlike DEF Popped, Below

LEMMA CallReturned ==
  ASSUME TypeOK, NEW n, At(n), n # "unwind", stack' = Returned
  PROVE  /\ stack' \in Seq(Call)
         /\ Popped \/ (stack[Depth].from # None /\ ToTake)
<1>1. stack # <<>> /\ Top = stack[Depth]
  BY DEF At, Top, Depth
<1>2. CASE Top.from = None
  BY <1>1, <1>2, StackPopped DEF Returned
<1>3. CASE Top.from # None
  <2>1. stack' = Goto("take")
    BY <1>3 DEF Returned
  <2>2. [stack[Depth] EXCEPT !.next = "take"] \in Call
    BY GoneTo DEF Call
  <2>3. /\ stack' \in Seq(Call) /\ Len(stack') = Depth
        /\ stack'[Depth] = [stack[Depth] EXCEPT !.next = "take"]
        /\ \A i \in 1..(Depth - 1) : stack'[i] = stack[i]
    BY <1>1, <2>1, <2>2, GoneTo, TopChanged
  <2>. QED
    BY <1>1, <1>3, <2>3, SameAlike DEF ToTake, Below
<1>. QED
  BY <1>2, <1>3

LEMMA DestructionPushed ==
  ASSUME TypeOK, BeginDestroy
  PROVE  /\ stack' \in Seq(Call) /\ Below(Depth - 1)
         /\ stack'[Depth] = [stack[Depth] EXCEPT !.next = "clear"]
         /\ Pushed(Destruction(handle[stack[Depth].self]))
         /\ Destruction(handle[stack[Depth].self]) \in Destructions
<1>. DEFINE f == handle[stack[Depth].self]
            t == Goto("clear")
<1>1. /\ At("test") /\ stack # <<>> /\ Top = stack[Depth]
      /\ stack[Depth].self \in Var /\ f # None
  BY AtDepth DEF BeginDestroy, Owning, At, Operations
<1>2. Destruction(f) \in Destructions
  BY <1>1 DEF TypeOK, Destruction, Destructions
<1>3. [stack[Depth] EXCEPT !.next = "clear"] \in Call
  BY <1>1, GoneTo DEF Call
<1>4. /\ t \in Seq(Call) /\ Len(t) = Depth
      /\ t[Depth] = [stack[Depth] EXCEPT !.next = "clear"]
      /\ \A i \in 1..(Depth - 1) : t[i] = stack[i]
  BY <1>1, <1>3, GoneTo, TopChanged
<1>5. stack' = Append(t, Destruction(f))
  BY <1>1 DEF BeginDestroy
<1>. HIDE DEF t, f
<1>6. /\ stack' \in Seq(Call) /\ Pushed(Destruction(f))
      /\ \A i \in 1..Depth : stack'[i] = t[i]
  BY <1>2, <1>4, <1>5, Appended DEF Pushed, Call
<1>7. Depth \in 1..Depth /\ Depth \in Nat
  BY <1>1, AtDepth, StackTypes
<1>8. \A i \in 1..(Depth - 1) : stack'[i] = stack[i]
  BY <1>4, <1>6, <1>7
<1>. QED
  BY <1>2, <1>4, <1>6, <1>7, <1>8, SameAlike DEF Below, f

LEMMA LocalPushed ==
  ASSUME TypeOK, NEW v \in Var, EndLocal(v)
  PROVE  /\ stack' \in Seq(Call) /\ Below(Depth - 1)
         /\ stack'[Depth] = [stack[Depth] EXCEPT !.left = @ \ {v}]
         /\ Pushed(Operation(v, None))
<1>. DEFINE c == [stack[Depth] EXCEPT !.left = @ \ {v}]
            t == [stack EXCEPT ![Len(stack)].left = @ \ {v}]
<1>1. /\ At("unwind") /\ stack # <<>> /\ stack[Depth] \in Destructions
  BY AtDepth DEF EndLocal, At
<1>2. c \in Call
  BY <1>1 DEF Destructions, Call
<1>3. t = [stack EXCEPT ![Len(stack)] = c]
  BY DEF Depth
<1>4. stack' = Append(t, Operation(v, None))
  BY DEF EndLocal
<1>5. stack # <<>> /\ Operation(v, None) \in Call
  BY <1>1, OperationFields DEF Call
<1>6. /\ t \in Seq(Call) /\ Len(t) = Depth /\ t[Depth] = c
      /\ \A i \in 1..(Depth - 1) : t[i] = stack[i]
  BY <1>2, <1>3, <1>5, TopChanged
<1>. HIDE DEF c, t
<1>7. /\ stack' \in Seq(Call) /\ Pushed(Operation(v, None))
      /\ \A i \in 1..Depth : stack'[i] = t[i]
  BY <1>4, <1>5, <1>6, Appended DEF Pushed
<1>8. Depth \in 1..Depth /\ Depth \in Nat
  BY <1>1, AtDepth, StackTypes
<1>9. \A i \in 1..(Depth - 1) : stack'[i] = stack[i]
  BY <1>6, <1>7, <1>8
<1>. QED
  BY <1>6, <1>7, <1>8, <1>9, SameAlike DEF Below, c

-----------------------------------------------------------------------------
(* The inductive invariant.                                                *)

\* Calls of Tasks and destructions alternate: each destruction is that of the
\* frame of the Task below it.
Nests(i) ==
  /\ i = 1 => InOperation(i)
  /\ i > 1 => (InOperation(i) <=> ~InOperation(i - 1))

Linked(i) ==
  InOperation(i) =>
    /\ stack[i].next = "clear" /\ ~InOperation(i + 1)
    /\ stack[i + 1].frame = handle[stack[i].self]

CallsNest == \A i \in 1..Depth : Nests(i) /\ (i < Depth => Linked(i))

SelfsDiffer ==
  \A i, j \in 1..Depth :
    InOperation(i) /\ InOperation(j) /\ i # j => stack[i].self # stack[j].self

\* What a call relies on at the statement it has reached.
CallsSound ==
  \A i \in 1..Depth :
    /\ InOperation(i) /\ stack[i].next = "clear" =>
         /\ handle[stack[i].self] # None
         /\ i = Depth => frame[handle[stack[i].self]] = "gone"
    /\ InOperation(i) /\ stack[i].next = "take" =>
         handle[stack[i].self] = None /\ stack[i].from # None
    /\ ~InOperation(i) => frame[stack[i].frame] = "dying"

\* Which Tasks the calls inside a destruction are of: its own locals, once they
\* have left it, or Tasks of the program.
Placed(i) ==
  /\ ~InOperation(i) => \A v \in stack[i].left : Home[v] = stack[i].frame
  /\ InOperation(i) /\ i > 1 =>
       \/ Home[stack[i].self] = Main
       \/ /\ stack[i].from = None
          /\ Home[stack[i].self] = stack[i - 1].frame
          /\ stack[i].self \notin stack[i - 1].left
  /\ InOperation(i) /\ i > 1 /\ stack[i].from # None =>
       Home[stack[i].from] = Main /\ Home[stack[i].self] = Main
  /\ InOperation(i) /\ stack[i].from # None =>
       \A j \in 1..i : InOperation(j) => stack[j].self # stack[i].from

Places == \A i \in 1..Depth : Placed(i)

\* The innermost call is about to look at its handle.
Testing == Depth > 0 /\ stack[Depth].next = "test"

\* No destruction in progress will reach the frame u is in.
Spared(u) ==
  Home[u] # Main =>
    /\ frame[Home[u]] = "suspended"
    /\ \A i \in 1..Depth : ~InOperation(i) =>
         \A v \in stack[i].left : Home[u] \notin Tree(handle, handle[v])
    /\ Testing => Home[u] \notin Tree(handle, handle[stack[Depth].self])

RootSpared ==
  Depth > 0 => /\ Spared(stack[1].self)
               /\ stack[1].from # None => Spared(stack[1].from)

\* No frame hangs from a Task inside it, nor will when the calls return.
Acyclic ==
  \A v \in Var : \A u \in Lands(stack, v) : Home[u] \notin Tree(handle, handle[v])

\* A Task that owns a frame is there, or a destruction has still to end it.
HeldIn(v, i) ==
  /\ ~InOperation(i) /\ stack[i].frame = Home[v]
  /\ v \in stack[i].left \/ (i < Depth /\ stack[i + 1].self = v)

Held ==
  \A v \in Var : handle[v] # None =>
    \/ Home[v] = Main
    \/ frame[Home[v]] = "suspended"
    \/ \E i \in 1..Depth : HeldIn(v, i)

Owned == \A f \in Frame : frame[f] = "suspended" => \E v \in Var : handle[v] = f

\* The source of an assignment whose source was not used since the call.
Untouched ==
  \A i \in 1..Depth :
    InOperation(i) /\ stack[i].from # None /\ ~stack[i].touched =>
      /\ handle[stack[i].from] = stack[i].had
      /\ \A j \in (i + 1)..Depth : InOperation(j) =>
           stack[j].self # stack[i].from /\ stack[j].from # stack[i].from

\* The call i, or one inside it, has still to end the frame f.
Pending(f, i) ==
  \/ \E j \in i..Depth :
       /\ ~InOperation(j)
       /\ \/ f = stack[j].frame
          \/ \E v \in stack[j].left : f \in Tree(handle, handle[v])
  \/ Testing /\ f \in Tree(handle, handle[stack[Depth].self])

EndsPending ==
  \A i \in 1..Depth : InOperation(i) =>
    \A f \in stack[i].ends : frame[f] = "gone" \/ Pending(f, i)

Discipline ==
  /\ TypeOK /\ HandlesAreSound
  /\ CallsNest /\ SelfsDiffer /\ CallsSound /\ Places
  /\ RootSpared /\ Acyclic
  /\ Held /\ Owned
  /\ Untouched /\ EndsPending

-----------------------------------------------------------------------------
(* What it says of a state.                                                *)

LEMMA FramesDiffer ==
  ASSUME Discipline, NEW i \in 1..Depth, NEW j \in 1..Depth,
         ~InOperation(i), ~InOperation(j), stack[i].frame = stack[j].frame
  PROVE  i = j
<1>1. ASSUME NEW k \in 1..Depth, ~InOperation(k)
      PROVE  /\ k - 1 \in 1..Depth /\ InOperation(k - 1)
             /\ stack[k].frame = handle[stack[k - 1].self]
             /\ stack[k].frame \in Frame /\ stack[k - 1].self \in Var
  <2>1. Depth \in Nat /\ k > 1 /\ k - 1 \in 1..Depth
    BY <1>1, StackTypes DEF Discipline, CallsNest, Nests, Linked
  <2>2. InOperation(k - 1)
    BY <1>1, <2>1 DEF Discipline, CallsNest, Nests, Linked
  <2>3. k - 1 < Depth /\ k - 1 + 1 = k
    BY <2>1
  <2>4. stack[k].frame = handle[stack[k - 1].self]
    BY <2>1, <2>2, <2>3 DEF Discipline, CallsNest, Nests, Linked
  <2>5. stack[k].frame \in Frame /\ stack[k - 1].self \in Var
    BY <1>1, <2>1, <2>2, StackTypes DEF Discipline, Operations, Destructions
  <2>. QED
    BY <2>1, <2>2, <2>4, <2>5
<1>2. stack[i - 1].self = stack[j - 1].self
  BY <1>1, DistinctAssumption DEF Discipline, HandlesAreSound
<1>3. i - 1 = j - 1
  BY <1>1, <1>2 DEF Discipline, SelfsDiffer
<1>. QED
  BY <1>3

LEMMA LiveHandles ==
  ASSUME Discipline, NEW v \in Var, handle[v] # None
  PROVE  handle[v] \in Frame /\ frame[handle[v]] # "none"
<1>1. handle[v] \in Frame
  BY DEF Discipline, TypeOK
<1>2. CASE frame[handle[v]] = "suspended"
  BY <1>1, <1>2
<1>3. ASSUME NEW i \in DOMAIN stack, InOperation(i), stack[i].next = "clear",
             stack[i].self = v
      PROVE  frame[handle[v]] # "none"
  <2>1. i \in 1..Depth /\ Depth \in Nat
    BY StackTypes DEF Discipline
  <2>2. CASE i = Depth
    BY <1>3, <2>1, <2>2 DEF Discipline, CallsSound
  <2>3. CASE i # Depth
    <3>1. /\ i + 1 \in 1..Depth /\ stack[i + 1].frame = handle[v]
          /\ (i + 1) - 1 = i /\ i + 1 > 1 /\ i < Depth
      BY <1>3, <2>1, <2>3 DEF Discipline, CallsNest, Nests, Linked
    <3>2. ~InOperation(i + 1)
      BY <1>3, <3>1 DEF Discipline, CallsNest, Nests, Linked
    <3>. QED
      BY <3>1, <3>2 DEF Discipline, CallsSound
  <2>. QED
    BY <2>2, <2>3
<1>. QED
  BY <1>1, <1>2, <1>3 DEF Discipline, HandlesAreSound

\* A frame that was not created or has ended owns nothing.
LEMMA NothingInside ==
  ASSUME Discipline, NEW f \in Frame, frame[f] \in {"none", "gone"}
  PROVE  /\ \A v \in Var : Home[v] = f => handle[v] = None
         /\ Tree(handle, f) = {f}
<1>1. ASSUME NEW v \in Var, Home[v] = f, handle[v] # None
      PROVE  FALSE
  <2>1. f # Main
    BY DistinctAssumption
  <2>2. \A i \in 1..Depth : ~InOperation(i) => stack[i].frame # f
    BY DEF Discipline, CallsSound
  <2>. QED
    BY <1>1, <2>1, <2>2 DEF Discipline, Held, HeldIn
<1>2. Closed(handle, {f})
  BY <1>1 DEF Closed
<1>. QED
  BY <1>1, <1>2, TreeRoot, TreeLeast

LEMMA SelfHomes ==
  ASSUME Discipline, NEW i \in 1..Depth, InOperation(i)
  PROVE  \/ Home[stack[i].self] = Main
         \/ frame[Home[stack[i].self]] \in {"suspended", "dying"}
<1>0. Depth \in Nat
  BY StackTypes DEF Discipline
<1>1. CASE i = 1
  BY <1>0, <1>1 DEF Discipline, RootSpared, Spared
<1>2. CASE i > 1
  <2>1. i - 1 \in 1..Depth /\ ~InOperation(i - 1)
    BY <1>0, <1>2 DEF Discipline, CallsNest, Nests, Linked
  <2>. QED
    BY <1>2, <2>1 DEF Discipline, Places, Placed, CallsSound
<1>. QED
  BY <1>0, <1>1, <1>2

\* A local that a destruction has still to end is in no call.
LEMMA LocalIdle ==
  ASSUME Discipline, ~InOperation(Depth), Depth \in 1..Depth,
         NEW v \in stack[Depth].left, NEW i \in 1..Depth, InOperation(i)
  PROVE  stack[i].self # v /\ stack[i].from # v
<1>1. /\ Home[v] = stack[Depth].frame /\ frame[Home[v]] = "dying"
      /\ stack[Depth].frame \in Frame /\ v \in Var
      /\ Home[v] # Main
  BY StackTypes, DistinctAssumption
  DEF Discipline, Places, Placed, CallsSound, Destructions
<1>2. v # None
  BY <1>1, DistinctAssumption
<1>0. Depth \in Nat
  BY StackTypes DEF Discipline
<1>3. CASE i = 1
  BY <1>0, <1>1, <1>2, <1>3 DEF Discipline, RootSpared, Spared
<1>4. CASE i > 1
  <2>1. i - 1 \in 1..Depth /\ ~InOperation(i - 1) /\ i - 1 # Depth
    BY <1>0, <1>4 DEF Discipline, CallsNest, Nests, Linked
  <2>2. stack[i - 1].frame # stack[Depth].frame
    BY <2>1, FramesDiffer
  <2>. QED
    BY <1>1, <1>2, <1>4, <2>2 DEF Discipline, Places, Placed
<1>. QED
  BY <1>0, <1>3, <1>4

-----------------------------------------------------------------------------
(* What a step does.                                                       *)

\* The call i goes on: a destruction may have fewer locals to end.
Kept(i) ==
  /\ InOperation(i)' <=> InOperation(i)
  /\ InOperation(i) =>
       /\ stack'[i].self = stack[i].self /\ stack'[i].from = stack[i].from
       /\ stack'[i].had = stack[i].had /\ stack'[i].ends = stack[i].ends
       /\ ~stack'[i].touched => ~stack[i].touched
  /\ ~InOperation(i) =>
       stack'[i].frame = stack[i].frame /\ stack'[i].left \subseteq stack[i].left

LEMMA AlikeKept == \A i : Alike(i) => Kept(i)
BY DEF Alike, Kept, InOperation

LEMMA CallTypes ==
  ASSUME TypeOK, NEW i \in 1..Depth
  PROVE  /\ InOperation(i) => /\ stack[i].self \in Var
                              /\ stack[i].from \in Var \cup {None}
                              /\ stack[i].ends \in SUBSET Frame
         /\ ~InOperation(i) => /\ stack[i].frame \in Frame
                               /\ stack[i].left \in SUBSET Var
BY StackTypes DEF Operations, Destructions

\* The k outermost calls still nest, are of the same Tasks and in their places.
LEMMA CallsKept ==
  ASSUME Discipline, NEW k \in 0..Depth, \A i \in 1..k : Kept(i),
         \A i \in 1..(k - 1) :
           /\ stack'[i].next = stack[i].next
           /\ InOperation(i) => handle'[stack[i].self] = handle[stack[i].self]
  PROVE  /\ \A i \in 1..k : Nests(i)' /\ (i < k => Linked(i)') /\ Placed(i)'
         /\ \A i, j \in 1..k : InOperation(i)' /\ InOperation(j)' /\ i # j =>
              stack'[i].self # stack'[j].self
<1>1. Depth \in Nat /\ k \in Nat /\ 1..k \subseteq 1..Depth
  BY StackTypes DEF Discipline
<1>2. ASSUME NEW i \in 1..k
      PROVE  Nests(i)'
  <2>1. i = 1 => InOperation(i)'
    BY <1>1 DEF Discipline, CallsNest, Nests, Kept
  <2>2. ASSUME i > 1
        PROVE  InOperation(i)' <=> ~InOperation(i - 1)'
    <3>1. i - 1 \in 1..k
      BY <1>1, <2>2
    <3>. QED
      BY <1>1, <2>2, <3>1 DEF Discipline, CallsNest, Nests, Kept
  <2>. QED
    BY <2>1, <2>2 DEF Nests
<1>3. ASSUME NEW i \in 1..k, i < k, InOperation(i)'
      PROVE  /\ stack'[i].next = "clear" /\ ~InOperation(i + 1)'
             /\ stack'[i + 1].frame = handle'[stack'[i].self]
  <2>1. /\ i \in 1..(k - 1) /\ i + 1 \in 1..k /\ i < Depth /\ i \in 1..Depth
        /\ Kept(i) /\ Kept(i + 1)
    BY <1>1, <1>3
  <2>2. InOperation(i)
    BY <1>3, <2>1 DEF Kept
  <2>3. /\ stack[i].next = "clear" /\ ~InOperation(i + 1)
        /\ stack[i + 1].frame = handle[stack[i].self]
    BY <2>1, <2>2 DEF Discipline, CallsNest, Linked
  <2>4. /\ stack'[i].next = "clear" /\ handle'[stack[i].self] = handle[stack[i].self]
    BY <2>1, <2>2, <2>3
  <2>. QED
    BY <2>1, <2>2, <2>3, <2>4 DEF Kept
<1>4. ASSUME NEW i \in 1..k
      PROVE  Placed(i)'
  <2>1. Placed(i) /\ Kept(i) /\ i \in 1..Depth
    BY <1>1 DEF Discipline, Places
  <2>2. ASSUME i > 1, InOperation(i)
        PROVE  \/ Home[stack'[i].self] = Main
               \/ /\ stack'[i].from = None
                  /\ Home[stack'[i].self] = stack'[i - 1].frame
                  /\ stack'[i].self \notin stack'[i - 1].left
    <3>1. i - 1 \in 1..k
      BY <1>1, <2>2
    <3>2. Kept(i - 1) /\ ~InOperation(i - 1)
      BY <1>1, <2>1, <2>2, <3>1 DEF Discipline, CallsNest, Nests
    <3>. QED
      BY <2>1, <2>2, <3>2 DEF Placed, Kept
  <2>3. ASSUME InOperation(i), stack[i].from # None, NEW j \in 1..i,
               InOperation(j)'
        PROVE  stack'[j].self # stack'[i].from
    <3>1. Kept(j)
      BY <1>1
    <3>. QED
      BY <2>1, <2>3, <3>1 DEF Placed, Kept
  <2>. QED
    BY <2>1, <2>2, <2>3 DEF Placed, Kept
<1>5. ASSUME NEW i \in 1..k, NEW j \in 1..k,
             InOperation(i)', InOperation(j)', i # j
      PROVE  stack'[i].self # stack'[j].self
  BY <1>1, <1>5 DEF Discipline, SelfsDiffer, Kept
<1>. QED
  BY <1>2, <1>3, <1>4, <1>5 DEF Linked

\* The sources of the k outermost calls that were not used, as long as their
\* handles stay.
LEMMA SourcesKept ==
  ASSUME Discipline, NEW k \in 0..Depth, \A i \in 1..k : Kept(i),
         NEW i \in 1..k, InOperation(i)', stack'[i].from # None,
         ~stack'[i].touched, handle'[stack[i].from] = handle[stack[i].from]
  PROVE  /\ handle'[stack'[i].from] = stack'[i].had
         /\ \A j \in (i + 1)..k : InOperation(j)' =>
              stack'[j].self # stack'[i].from /\ stack'[j].from # stack'[i].from
<1>1. Depth \in Nat /\ k \in Nat /\ 1..k \subseteq 1..Depth
  BY StackTypes DEF Discipline
<1>2. /\ i \in 1..Depth /\ Kept(i) /\ InOperation(i)
      /\ stack[i].from # None /\ ~stack[i].touched
  BY <1>1 DEF Kept
<1>3. /\ handle[stack[i].from] = stack[i].had
      /\ \A j \in (i + 1)..Depth : InOperation(j) =>
           stack[j].self # stack[i].from /\ stack[j].from # stack[i].from
  BY <1>2 DEF Discipline, Untouched
<1>4. ASSUME NEW j \in (i + 1)..k, InOperation(j)'
      PROVE  stack'[j].self # stack'[i].from /\ stack'[j].from # stack'[i].from
  <2>1. j \in 1..k /\ j \in (i + 1)..Depth
    BY <1>1
  <2>. QED
    BY <1>2, <1>3, <1>4, <2>1 DEF Kept
<1>. QED
  BY <1>2, <1>3, <1>4 DEF Kept

LEMMA SequenceOfCalls ==
  ASSUME NEW s \in Seq(Call)
  PROVE  TypedCalls(s) /\ DOMAIN s = 1..Len(s) /\ Len(s) \in Nat
BY DEF TypedCalls, Call, Operations, Destructions

LEMMA LandsKept ==
  ASSUME TypeOK, stack' \in Seq(Call),
         \A i \in 1..Len(stack') :
           \/ i \in 1..Depth /\ Kept(i)
           \/ stack'[i].next = "unwind" \/ stack'[i].from = None,
         NEW v \in Var
  PROVE  Lands(stack', v) \subseteq Lands(stack, v)
<1>1. TypedCalls(stack') /\ DOMAIN stack' = 1..Len(stack')
  BY SequenceOfCalls
<1>2. ASSUME NEW x \in Var, NEW y \in Var, Arrow(stack', x, y)
      PROVE  Arrow(stack, x, y)
  <2>1. PICK i \in 1..Len(stack') :
          stack'[i].next # "unwind" /\ stack'[i].from = x /\ stack'[i].self = y
    BY <1>1, <1>2 DEF Arrow
  <2>2. i \in 1..Depth /\ Kept(i)
    BY <2>1, DistinctAssumption
  <2>3. /\ stack[i].next # "unwind" /\ stack[i].from = x /\ stack[i].self = y
    BY <2>1, <2>2 DEF Kept, InOperation
  <2>. QED
    BY <2>2, <2>3, StackTypes DEF Arrow
<1>3. Fewer(stack', stack)
  BY <1>2 DEF Fewer
<1>. QED
  BY <1>1, <1>3, LandsFewer

\* A Task of the program gets or loses a frame, which no tree contains.
LEMMA MainTrees ==
  ASSUME TypeOK, handle' \in Handles,
         \A u \in Var : Home[u] # Main => handle'[u] = handle[u]
  PROVE  \A f : Tree(handle', f) = Tree(handle, f)
<1>1. \A u \in Var : Home[u] \in Frame => handle'[u] = handle[u]
  BY DistinctAssumption
<1>2. handle \in Handles
  BY DEF TypeOK, Handles
<1>3. ASSUME NEW f
      PROVE  Tree(handle', f) \subseteq Tree(handle, f)
  BY <1>1, <1>2, TreeShrinks
<1>4. ASSUME NEW f
      PROVE  Tree(handle, f) \subseteq Tree(handle', f)
  BY <1>1, <1>2, TreeShrinks
<1>. QED
  BY <1>3, <1>4

\* A frame that no destruction in progress will reach stays so, when trees do
\* not grow and no new destruction begins.
LEMMA SparedKept ==
  ASSUME Discipline, NEW u \in Var, Spared(u),
         Len(stack') \in 0..Depth, \A i \in 1..Len(stack') : Kept(i),
         \A f \in Frame : frame[f] = "suspended" => frame'[f] = "suspended",
         \A v \in Var : Home[v] \in Frame =>
           Tree(handle', handle'[v]) \subseteq Tree(handle, handle[v]),
         ~Testing'
  PROVE  Spared(u)'
<1>1. Depth \in Nat /\ 1..Len(stack') \subseteq 1..Depth
  BY StackTypes DEF Discipline
<1>2. Depth' = Len(stack')
  BY DEF Depth
<1>3. ASSUME Home[u] # Main
      PROVE  frame'[Home[u]] = "suspended"
  BY <1>3, HomeAssumption DEF Spared
<1>4. ASSUME Home[u] # Main, NEW i \in 1..Len(stack'), ~InOperation(i)',
             NEW v \in stack'[i].left
      PROVE  Home[u] \notin Tree(handle', handle'[v])
  <2>1. i \in 1..Depth /\ ~InOperation(i) /\ v \in stack[i].left
    BY <1>1, <1>4 DEF Kept
  <2>2. v \in Var /\ Home[v] \in Frame
    BY <2>1, CallTypes DEF Discipline, Places, Placed
  <2>3. Home[u] \notin Tree(handle, handle[v])
    BY <1>4, <2>1 DEF Spared
  <2>. QED
    BY <2>2, <2>3
<1>. QED
  BY <1>2, <1>3, <1>4 DEF Spared

LEMMA HeldInKept ==
  ASSUME Discipline, NEW k \in 0..Depth, k <= Len(stack'), Len(stack') \in Nat,
         \A j \in 1..k : Kept(j), NEW u \in Var, NEW i \in 1..k, HeldIn(u, i),
         u \in stack[i].left => u \in stack'[i].left,
         u \in stack[i].left \/ i < k
  PROVE  HeldIn(u, i)'
<1>1. Depth \in Nat /\ i \in 1..Depth
  BY StackTypes DEF Discipline
<1>2. CASE u \in stack[i].left
  BY <1>2 DEF HeldIn, Kept
<1>3. CASE u \notin stack[i].left
  <2>1. i < k /\ i + 1 \in 1..k /\ i + 1 \in 1..Depth /\ i + 1 > 1
        /\ (i + 1) - 1 = i /\ i < Len(stack')
    BY <1>1, <1>3
  <2>2. InOperation(i + 1) /\ stack[i + 1].self = u
    BY <1>3, <2>1 DEF Discipline, CallsNest, Nests, HeldIn
  <2>. QED
    BY <1>3, <2>1, <2>2 DEF HeldIn, Kept, Depth
<1>. QED
  BY <1>2, <1>3

\* What a destruction among the k outermost calls has still to end.
LEMMA PendingKept ==
  ASSUME Discipline, NEW k \in 0..Depth, k <= Len(stack'), Len(stack') \in Nat,
         NEW i \in 1..k, NEW j \in i..k, Alike(j), ~InOperation(j), NEW f,
         \/ f = stack[j].frame
         \/ \E v \in stack[j].left : f \in Tree(handle, handle[v]),
         \A v \in Var : Home[v] \in Frame /\ f \in Tree(handle, handle[v]) =>
           f \in Tree(handle', handle'[v])
  PROVE  Pending(f, i)'
<1>1. Depth \in Nat /\ j \in 1..Depth /\ j \in i..Len(stack')
  BY StackTypes DEF Discipline
<1>2. stack'[j] = stack[j] /\ ~InOperation(j)'
  BY DEF Alike, InOperation
<1>3. \A v \in stack[j].left : v \in Var /\ Home[v] \in Frame
  BY <1>1, CallTypes DEF Discipline, Places, Placed
<1>. QED
  BY <1>1, <1>2, <1>3 DEF Pending, Depth

-----------------------------------------------------------------------------
(* Calls of the program.                                                   *)

LEMMA CreateCalls ==
  ASSUME TypeOK, NEW v \in Var, NEW f \in Frame, Create(v, f)
  PROVE  /\ stack' \in Seq(Call) /\ Len(stack') = Depth
         /\ \A i \in 1..Depth :
              /\ Alike(i) /\ Kept(i)
              /\ InOperation(i) /\ ~stack'[i].touched => stack[i].from # v
<1>1. stack' = Touched({v})
  BY DEF Create
<1>2. \A i \in 1..Depth : stack'[i] = WithTouch({v}, i)
  BY <1>1, TouchedCalls
<1>3. \A i \in 1..Depth :
        /\ Alike(i)
        /\ InOperation(i) /\ ~stack'[i].touched => stack[i].from \notin {v}
  BY <1>2, TouchedAlike
<1>. QED
  BY <1>1, <1>3, TouchedCalls, AlikeKept

LEMMA CreateDisciplined ==
  ASSUME Discipline, NEW v \in Var, NEW f \in Frame, Create(v, f)
  PROVE  Discipline'
<1>. USE DEF Discipline
<1>1. /\ handle[v] = None /\ frame[f] = "none" /\ Usable(v)
      /\ handle' = [handle EXCEPT ![v] = f]
      /\ frame' = [frame EXCEPT ![f] = "suspended"]
  BY DEF Create
<1>2. /\ handle'[v] = f /\ frame'[f] = "suspended"
      /\ \A u \in Var : u # v => handle'[u] = handle[u]
      /\ \A g \in Frame : g # f => frame'[g] = frame[g]
      /\ handle \in Handles /\ handle' \in Handles
      /\ handle \in [Var -> Frame \cup {None}]
      /\ frame \in [Frame -> {"none", "suspended", "dying", "gone"}]
  BY <1>1 DEF TypeOK, Handles
<1>3. /\ stack' \in Seq(Call) /\ Len(stack') = Depth /\ Depth \in Nat
      /\ Depth' = Depth /\ DOMAIN stack' = 1..Depth /\ DOMAIN stack = 1..Depth
      /\ \A i \in 1..Depth :
           /\ Alike(i) /\ Kept(i)
           /\ InOperation(i) /\ ~stack'[i].touched => stack[i].from # v
  BY CreateCalls, StackTypes, SequenceOfCalls DEF Depth
<1>4. \A i \in 1..Depth :
        /\ InOperation(i) => /\ stack[i].self \in Var /\ stack[i].self # v
                             /\ stack[i].from \in Var \cup {None}
                             /\ stack[i].ends \in SUBSET Frame
        /\ ~InOperation(i) => /\ stack[i].frame \in Frame
                              /\ stack[i].left \in SUBSET Var
  BY <1>1, UsableDepth, CallTypes
<1>5. \A u \in Var : handle[u] # f
  BY <1>1, <1>2, LiveHandles, DistinctAssumption
<1>6. TypeOK'
  BY <1>1, <1>3 DEF TypeOK, Call
<1>7. Depth = 0 \/ (At("unwind") /\ Home[v] = Main)
  BY <1>1, UsableDepth
<1>8. ~Testing /\ ~Testing'
  <2>1. Depth = 0 \/ (stack[Depth].next = "unwind" /\ Alike(Depth))
    BY <1>3, <1>7, AtDepth
  <2>. QED
    BY <1>3, <2>1 DEF Testing, Alike
<1>9. HandlesAreSound'
  <2>. SUFFICES ASSUME NEW u \in Var, handle'[u] # None
                PROVE  /\ \A w \in Var : handle'[w] = handle'[u] => w = u
                       /\ \/ frame'[handle'[u]] = "suspended"
                          \/ \E i \in DOMAIN stack' :
                               /\ InOperation(i)' /\ stack'[i].next = "clear"
                               /\ stack'[i].self = u
    BY DEF HandlesAreSound
  <2>1. CASE u = v
    BY <1>2, <1>5, <2>1
  <2>2. CASE u # v
    <3>1. /\ handle[u] # None /\ handle[u] # f /\ handle'[u] = handle[u]
          /\ handle[u] \in Frame /\ frame'[handle[u]] = frame[handle[u]]
      BY <1>2, <1>5, <2>2
    <3>2. \A w \in Var : handle'[w] = handle'[u] => w = u
      BY <1>2, <1>5, <3>1 DEF HandlesAreSound
    <3>3. CASE frame[handle[u]] = "suspended"
      BY <3>1, <3>2, <3>3
    <3>4. CASE frame[handle[u]] # "suspended"
      <4>1. PICK i \in 1..Depth : /\ InOperation(i) /\ stack[i].next = "clear"
                                  /\ stack[i].self = u
        BY <1>3, <3>1, <3>4 DEF HandlesAreSound
      <4>. QED
        BY <1>3, <3>2, <4>1 DEF Alike, Kept
    <3>. QED
      BY <3>3, <3>4
  <2>. QED
    BY <2>1, <2>2
<1>10. CallsNest' /\ Places' /\ SelfsDiffer'
  <2>1. \A i \in 1..(Depth - 1) :
          /\ stack'[i].next = stack[i].next
          /\ InOperation(i) => handle'[stack[i].self] = handle[stack[i].self]
    BY <1>2, <1>3, <1>4 DEF Alike
  <2>2. Depth \in 0..Depth
    BY <1>3
  <2>. QED
    BY <1>3, <2>1, <2>2, CallsKept DEF CallsNest, Places, SelfsDiffer
<1>11. CallsSound'
  BY <1>1, <1>2, <1>3, <1>4 DEF CallsSound, Alike, Kept
<1>12. /\ \A u \in Var : Home[u] = f => handle[u] = None
       /\ Tree(handle, f) = {f}
  BY <1>1, NothingInside
<1>13. Home[v] # f
  BY <1>1, DistinctAssumption, UsableDepth
<1>14. RootSpared'
  <2>1. CASE Depth = 0
    BY <1>3, <2>1 DEF RootSpared
  <2>2. CASE Depth # 0
    <3>1. \A g : Tree(handle', g) = Tree(handle, g)
      BY <1>2, <1>7, <2>2, MainTrees
    <3>2. \A u \in Var : Home[u] \in Frame =>
            Tree(handle', handle'[u]) \subseteq Tree(handle, handle[u])
      BY <1>2, <1>7, <2>2, <3>1, DistinctAssumption
    <3>3. \A g \in Frame : frame[g] = "suspended" => frame'[g] = "suspended"
      BY <1>2
    <3>4. ASSUME NEW u \in Var, Spared(u)
          PROVE  Spared(u)'
      BY <1>3, <1>8, <3>2, <3>3, <3>4, SparedKept
    <3>5. /\ 1 \in 1..Depth /\ InOperation(1) /\ Kept(1)
      BY <1>3, <2>2 DEF CallsNest, Nests
    <3>. QED
      BY <1>3, <1>4, <2>2, <3>4, <3>5 DEF RootSpared, Kept
  <2>. QED
    BY <2>1, <2>2
<1>15. Acyclic'
  <2>. SUFFICES ASSUME NEW x \in Var, NEW u \in Lands(stack', x)
                PROVE  Home[u] \notin Tree(handle', handle'[x])
    BY DEF Acyclic
  <2>1. u \in Lands(stack, x) /\ u \in Var
    BY <1>3, LandsKept DEF Lands
  <2>2. u # x => Home[u] # f
    <3>1. ASSUME u # x
          PROVE  \E i \in 1..Depth : InOperation(i) /\ stack[i].self = u
      BY <1>3, <2>1, <3>1, TypedStack, LandsOnlyInSelf DEF Arrow, InOperation
    <3>. QED
      BY <1>1, <3>1, SelfHomes, DistinctAssumption
  <2>3. CASE x = v
    <3>1. Closed(handle', {f})
      BY <1>2, <1>12, <1>13 DEF Closed
    <3>2. Tree(handle', f) \subseteq {f}
      BY <3>1, TreeLeast
    <3>. QED
      BY <1>2, <1>13, <2>2, <2>3, <3>2
  <2>4. CASE x # v /\ handle[x] = None
    BY <1>2, <2>4, TreeOfNone
  <2>5. CASE x # v /\ handle[x] # None
    <3>1. /\ handle'[x] = handle[x] /\ handle[x] \in Frame
          /\ Grafts(handle, handle', v, f)
      BY <1>2, <2>5 DEF Grafts
    <3>2. Tree(handle', handle[x]) \subseteq Tree(handle, handle[x]) \cup {f}
      BY <1>2, <1>12, <3>1, TreeGrafts
    <3>3. Home[u] # f
      BY <1>12, <2>2, <2>5
    <3>. QED
      BY <2>1, <3>1, <3>2, <3>3 DEF Acyclic
  <2>. QED
    BY <2>3, <2>4, <2>5
<1>16. Held'
  <2>. SUFFICES ASSUME NEW u \in Var, handle'[u] # None, Home[u] # Main,
                       frame'[Home[u]] # "suspended"
                PROVE  \E i \in 1..Depth : HeldIn(u, i)'
    BY <1>3 DEF Held
  <2>1. u # v /\ handle[u] # None /\ frame[Home[u]] # "suspended"
    BY <1>1, <1>2, <1>13, HomeAssumption, UsableDepth
  <2>2. PICK i \in 1..Depth : HeldIn(u, i)
    BY <2>1 DEF Held
  <2>3. stack'[i] = stack[i] /\ Depth \in 0..Depth /\ Depth <= Len(stack')
        /\ (u \in stack[i].left \/ i < Depth)
    BY <1>3, <2>2 DEF Alike, HeldIn
  <2>. QED
    BY <1>3, <2>2, <2>3, HeldInKept
<1>17. Owned'
  <2>. SUFFICES ASSUME NEW g \in Frame, frame'[g] = "suspended"
                PROVE  \E u \in Var : handle'[u] = g
    BY DEF Owned
  <2>1. CASE g = f
    BY <1>2, <2>1
  <2>2. CASE g # f
    <3>1. PICK u \in Var : handle[u] = g
      BY <1>2, <2>2 DEF Owned
    <3>2. u # v
      BY <1>1, <3>1, DistinctAssumption
    <3>. QED
      BY <1>2, <3>1, <3>2
  <2>. QED
    BY <2>1, <2>2
<1>18. Untouched'
  <2>. SUFFICES ASSUME NEW i \in 1..Depth, InOperation(i)',
                       stack'[i].from # None, ~stack'[i].touched
                PROVE  /\ handle'[stack'[i].from] = stack'[i].had
                       /\ \A j \in (i + 1)..Depth : InOperation(j)' =>
                            /\ stack'[j].self # stack'[i].from
                            /\ stack'[j].from # stack'[i].from
    BY <1>3 DEF Untouched
  <2>1. /\ InOperation(i) /\ stack[i].from # v /\ stack[i].from \in Var
        /\ Depth \in 0..Depth
    BY <1>3, <1>4 DEF Kept
  <2>. QED
    BY <1>2, <1>3, <2>1, SourcesKept
<1>19. EndsPending'
  <2>. SUFFICES ASSUME NEW i \in 1..Depth, InOperation(i)', NEW g \in stack'[i].ends
                PROVE  frame'[g] = "gone" \/ Pending(g, i)'
    BY <1>3 DEF EndsPending
  <2>1. InOperation(i) /\ g \in stack[i].ends /\ g \in Frame
    BY <1>3, <1>4 DEF Kept
  <2>2. CASE frame[g] = "gone"
    BY <1>1, <1>2, <2>1, <2>2
  <2>3. CASE Pending(g, i)
    <3>1. PICK j \in i..Depth :
            /\ ~InOperation(j)
            /\ \/ g = stack[j].frame
               \/ \E u \in stack[j].left : g \in Tree(handle, handle[u])
      BY <1>8, <2>3 DEF Pending
    <3>2. Depth # 0 /\ Depth \in 0..Depth /\ Depth <= Len(stack')
          /\ j \in 1..Depth
      BY <1>3
    <3>3. \A h : Tree(handle', h) = Tree(handle, h)
      BY <1>2, <1>7, <3>2, MainTrees
    <3>4. \A u \in Var : Home[u] \in Frame /\ g \in Tree(handle, handle[u]) =>
            g \in Tree(handle', handle'[u])
      BY <1>2, <1>7, <3>2, <3>3, DistinctAssumption
    <3>. QED
      BY <1>3, <3>1, <3>2, <3>4, PendingKept
  <2>. QED
    BY <2>1, <2>2, <2>3 DEF EndsPending
<1>. QED
  BY <1>6, <1>9, <1>10, <1>11, <1>14, <1>15, <1>16, <1>17, <1>18, <1>19

\* ~Task() and operator= begin.
LEMMA CallDisciplined ==
  ASSUME Discipline, NEW v \in Var, NEW w \in Var \cup {None}, NEW V,
         Usable(v), v \in V, MayEnd(v, Busy \cup Source),
         w # None =>
           /\ Usable(w) /\ w # v /\ w \in V /\ MayEnd(v, {w})
           /\ \A u \in Landing(v) : Home[u] \notin Subtree(handle[w]),
         stack' = Append(Touched(V), Operation(v, w)),
         UNCHANGED <<handle, frame>>
  PROVE  Discipline'
<1>. USE DEF Discipline
<1>0. PICK d \in Nat, n \in Nat : d = Depth /\ n = d + 1
  BY StackTypes
<1>1. /\ handle' = handle /\ frame' = frame
      /\ handle \in Handles /\ handle \in [Var -> Frame \cup {None}]
  BY DEF TypeOK, Handles
<1>2. /\ stack' \in Seq(Call) /\ Len(stack') = n /\ Depth \in Nat
      /\ Depth' = n /\ DOMAIN stack' = 1..n /\ DOMAIN stack = 1..Depth
      /\ n \in Nat /\ n \in 1..n /\ 1..n = 1..Depth \cup {n} /\ n \notin 1..Depth
      /\ Depth \in 0..Depth /\ Depth <= n /\ d = Depth /\ n = d + 1
  BY <1>0, CallPushed, StackTypes, SequenceOfCalls DEF Depth, Pushed
<1>3. \A i \in 1..Depth :
        /\ Alike(i) /\ Kept(i)
        /\ InOperation(i) /\ ~stack'[i].touched => stack[i].from \notin V
  BY CallPushed, AlikeKept DEF Below
<1>4. /\ stack'[n] = Operation(v, w) /\ InOperation(n)'
      /\ stack'[n].self = v /\ stack'[n].from = w /\ stack'[n].next = "test"
      /\ stack'[n].ends = Tree(handle, handle[v])
      /\ w # None => stack'[n].had = handle[w]
  <2>1. stack'[n] = Operation(v, w)
    BY <1>0, CallPushed DEF Pushed
  <2>. QED
    BY <2>1, OperationFields, SubtreeIsTree DEF InOperation
<1>5. \A i \in 1..Depth :
        /\ InOperation(i) => /\ stack[i].self \in Var /\ stack[i].self # v
                             /\ stack[i].self # w
                             /\ stack[i].from \in Var \cup {None}
                             /\ stack[i].ends \in SUBSET Frame
        /\ ~InOperation(i) => /\ stack[i].frame \in Frame
                              /\ stack[i].left \in SUBSET Var
  BY UsableDepth, CallTypes, DistinctAssumption
<1>6. TypeOK'
  BY <1>1, <1>2 DEF TypeOK, Call
<1>7. /\ Depth = 0 \/ (~InOperation(Depth) /\ Depth \in 1..Depth)
      /\ Depth = 0 \/ (Home[v] = Main /\ (w # None => Home[w] = Main))
      /\ Home[v] # Main => frame[Home[v]] = "suspended"
      /\ w # None /\ Home[w] # Main => frame[Home[w]] = "suspended"
  BY UsableDepth, AtDepth
<1>8. HandlesAreSound'
  <2>. SUFFICES ASSUME NEW u \in Var, handle[u] # None,
                       frame[handle[u]] # "suspended"
                PROVE  \E i \in 1..n : /\ InOperation(i)'
                                       /\ stack'[i].next = "clear"
                                       /\ stack'[i].self = u
    BY <1>1, <1>2 DEF HandlesAreSound
  <2>1. PICK i \in 1..Depth : /\ InOperation(i) /\ stack[i].next = "clear"
                              /\ stack[i].self = u
    BY <1>2 DEF HandlesAreSound
  <2>. QED
    BY <1>2, <1>3, <2>1 DEF Alike, Kept
<1>9. /\ \A i \in 1..Depth : Nests(i)' /\ (i < Depth => Linked(i)') /\ Placed(i)'
      /\ \A i, j \in 1..Depth : InOperation(i)' /\ InOperation(j)' /\ i # j =>
           stack'[i].self # stack'[j].self
  <2>1. \A i \in 1..(Depth - 1) :
          /\ stack'[i].next = stack[i].next
          /\ InOperation(i) => handle'[stack[i].self] = handle[stack[i].self]
    BY <1>1, <1>2, <1>3 DEF Alike
  <2>. QED
    BY <1>2, <1>3, <2>1, CallsKept
<1>10. CallsNest'
  <2>1. Nests(n)'
    BY <1>2, <1>3, <1>4, <1>7 DEF Nests, Kept
  <2>2. d # 0 => Linked(d)'
    BY <1>2, <1>3, <1>7 DEF Linked, Kept
  <2>. QED
    BY <1>2, <1>9, <2>1, <2>2 DEF CallsNest
<1>11. SelfsDiffer'
  BY <1>2, <1>3, <1>4, <1>5, <1>9 DEF SelfsDiffer, Kept
<1>12. CallsSound'
  <2>1. \A i \in 1..Depth : InOperation(i) /\ stack[i].next = "clear" => i # n
    BY <1>2
  <2>. QED
    BY <1>1, <1>2, <1>3, <1>4, <1>7, <2>1 DEF CallsSound, Alike, Kept
<1>13. Places'
  <2>1. Placed(n)'
    BY <1>2, <1>3, <1>4, <1>5, <1>7 DEF Placed, Kept
  <2>. QED
    BY <1>2, <1>9, <2>1 DEF Places
<1>14. RootSpared'
  <2>1. CASE Depth = 0
    <3>1. n = 1
      BY <1>2, <2>1
    <3>2. Home[v] \notin Tree(handle, handle[v])
      BY LandsHere DEF Acyclic
    <3>3. w # None => Home[w] \notin Tree(handle, handle[v])
      BY SubtreeIsTree DEF MayEnd
    <3>4. \A i \in 1..n : InOperation(i)'
      BY <1>2, <1>4, <3>1
    <3>5. stack'[n].self = v /\ stack'[1].self = v /\ stack'[1].from = w
      BY <1>4, <3>1
    <3>. QED
      BY <1>1, <1>2, <1>7, <3>2, <3>3, <3>4, <3>5 DEF RootSpared, Spared, Testing
  <2>2. CASE Depth # 0
    <3>1. /\ 1 \in 1..Depth /\ InOperation(1) /\ Kept(1)
          /\ stack'[1].self = stack[1].self /\ stack'[1].from = stack[1].from
      BY <1>2, <1>3, <2>2 DEF CallsNest, Nests, Kept
    <3>2. stack[1].self \in Busy /\ (stack[1].from # None => stack[1].from \in Source)
      BY <1>2, <3>1 DEF Busy, Source
    <3>3. \A u \in Busy \cup Source : Home[u] \notin Tree(handle, handle[v])
      BY SubtreeIsTree DEF MayEnd
    <3>4. ASSUME NEW u \in Var, Spared(u), u \in Busy \cup Source
          PROVE  Spared(u)'
      BY <1>1, <1>2, <1>3, <1>4, <3>3, <3>4 DEF Spared, Testing, Kept
    <3>. QED
      BY <1>2, <1>5, <2>2, <3>1, <3>2, <3>4 DEF RootSpared
  <2>. QED
    BY <2>1, <2>2
<1>15. Acyclic'
  <2>. SUFFICES ASSUME NEW x \in Var, NEW u \in Lands(stack', x)
                PROVE  Home[u] \notin Tree(handle, handle[x])
    BY <1>1 DEF Acyclic
  <2>1. CASE w = None
    <3>1. u \in Lands(stack, x)
      BY <1>2, <1>3, <1>4, <2>1, LandsKept
    <3>. QED
      BY <3>1 DEF Acyclic
  <2>2. CASE w # None
    <3>0. w \in Var /\ TypedCalls(stack')
      BY <1>2, <2>2, SequenceOfCalls
    <3>1. OneMore(stack', stack, w, v)
      BY <1>2, <1>3, <1>4 DEF OneMore, Arrow, Kept, InOperation
    <3>2. /\ Lands(stack', x) \subseteq Lands(stack, x) \cup Lands(stack, v)
          /\ w \notin Lands(stack, x) => Lands(stack', x) \subseteq Lands(stack, x)
      BY <3>0, <3>1, LandsWith
    <3>3. CASE x = w
      BY <2>2, <3>2, <3>3, SubtreeIsTree, LandingIsLands DEF Acyclic
    <3>4. CASE x # w
      <4>1. \A y \in Var : ~Arrow(stack, y, w)
        BY <1>2, <1>5 DEF Arrow, InOperation
      <4>2. w \notin Lands(stack, x)
        BY <3>0, <3>4, <4>1, TypedStack, LandsOnlyInSelf
      <4>. QED
        BY <3>2, <4>2 DEF Acyclic
    <3>. QED
      BY <3>3, <3>4
  <2>. QED
    BY <2>1, <2>2
<1>16. Held'
  <2>. SUFFICES ASSUME NEW u \in Var, handle[u] # None, Home[u] # Main,
                       frame[Home[u]] # "suspended"
                PROVE  \E i \in 1..n : HeldIn(u, i)'
    BY <1>1, <1>2 DEF Held
  <2>1. PICK i \in 1..Depth : HeldIn(u, i)
    BY DEF Held
  <2>2. stack'[i] = stack[i] /\ (u \in stack[i].left \/ i < Depth)
    BY <1>3, <2>1 DEF Alike, HeldIn
  <2>. QED
    BY <1>2, <1>3, <2>1, <2>2, HeldInKept
<1>17. Owned'
  BY <1>1 DEF Owned
<1>18. Untouched'
  <2>. SUFFICES ASSUME NEW i \in 1..n, InOperation(i)',
                       stack'[i].from # None, ~stack'[i].touched
                PROVE  /\ handle'[stack'[i].from] = stack'[i].had
                       /\ \A j \in (i + 1)..n : InOperation(j)' =>
                            /\ stack'[j].self # stack'[i].from
                            /\ stack'[j].from # stack'[i].from
    BY <1>2 DEF Untouched
  <2>1. CASE i = n
    BY <1>1, <1>2, <1>4, <2>1
  <2>2. CASE i \in 1..Depth
    <3>1. /\ InOperation(i) /\ stack[i].from \notin V
          /\ stack'[i].from = stack[i].from
      BY <1>3, <2>2 DEF Kept
    <3>2. /\ handle'[stack'[i].from] = stack'[i].had
          /\ \A j \in (i + 1)..Depth : InOperation(j)' =>
               stack'[j].self # stack'[i].from /\ stack'[j].from # stack'[i].from
      BY <1>1, <1>2, <1>3, <2>2, SourcesKept
    <3>3. v # stack'[i].from /\ w # stack'[i].from
      BY <3>1
    <3>4. \A j \in (i + 1)..n : j \in (i + 1)..Depth \/ j = n
      BY <1>2, <2>2
    <3>. QED
      BY <1>4, <3>2, <3>3, <3>4
  <2>. QED
    BY <1>2, <2>1, <2>2
<1>19. EndsPending'
  <2>. SUFFICES ASSUME NEW i \in 1..n, InOperation(i)', NEW g \in stack'[i].ends
                PROVE  frame[g] = "gone" \/ Pending(g, i)'
    BY <1>1, <1>2 DEF EndsPending
  <2>1. CASE i = n
    BY <1>1, <1>2, <1>4, <2>1 DEF Pending, Testing
  <2>2. CASE i \in 1..Depth /\ Pending(g, i)
    <3>1. ~Testing
      BY <1>2, <1>7 DEF Testing, InOperation
    <3>2. PICK j \in i..Depth :
            /\ ~InOperation(j)
            /\ \/ g = stack[j].frame
               \/ \E u \in stack[j].left : g \in Tree(handle, handle[u])
      BY <2>2, <3>1 DEF Pending
    <3>3. j \in 1..Depth
      BY <1>2, <2>2
    <3>. QED
      BY <1>1, <1>2, <1>3, <2>2, <3>2, <3>3, PendingKept
  <2>3. i \in 1..Depth => InOperation(i) /\ g \in stack[i].ends
    BY <1>3 DEF Kept
  <2>. QED
    BY <1>2, <2>1, <2>2, <2>3 DEF EndsPending
<1>. QED
  BY <1>6, <1>8, <1>10, <1>11, <1>12, <1>13, <1>14, <1>15, <1>16, <1>17, <1>18,
     <1>19

LEMMA DestroyDisciplined ==
  ASSUME Discipline, NEW v \in Var, Destroy(v)
  PROVE  Discipline'
<1>. DEFINE V == {v}
<1>1. stack' = Append(Touched(V), Operation(v, None)) /\ v \in V
  BY DEF Destroy
<1>. HIDE DEF V
<1>. QED
  BY <1>1, CallDisciplined DEF Destroy

LEMMA AssignDisciplined ==
  ASSUME Discipline, NEW v \in Var, NEW w \in Var, Assign(v, w)
  PROVE  Discipline'
<1>. DEFINE V == {v, w}
<1>1. /\ stack' = Append(Touched(V), Operation(v, w)) /\ v \in V /\ w \in V
      /\ UNCHANGED <<handle, frame>> /\ Usable(v) /\ Usable(w)
      /\ \A u \in Landing(v) : Home[u] \notin Subtree(handle[w])
      /\ w # v /\ w # None
  BY DistinctAssumption DEF Assign, Different
<1>2. MayEnd(v, Busy \cup Source) /\ MayEnd(v, {w})
  BY DEF Assign, MayEnd
<1>. HIDE DEF V
<1>. QED
  BY <1>1, <1>2, CallDisciplined

-----------------------------------------------------------------------------
(* reset(), destroy() and the exchange.                                    *)

LEMMA BeginDestroyDisciplined ==
  ASSUME Discipline, BeginDestroy
  PROVE  Discipline'
<1>. USE DEF Discipline
<1>0. /\ At("test") /\ Top = stack[Depth] /\ Depth \in 1..Depth
      /\ InOperation(Depth) /\ stack[Depth] \in Operations
      /\ stack[Depth].next = "test" /\ Depth \in Nat
  BY AtDepth, StackTypes DEF BeginDestroy
<1>1. PICK d \in Nat, n \in Nat : d = Depth /\ n = d + 1
  BY <1>0
<1>2. PICK s \in Var, f \in Frame :
        s = stack[Depth].self /\ f = handle[s]
  BY <1>0 DEF BeginDestroy, Owning, TypeOK, Operations
<1>3. /\ stack' \in Seq(Call) /\ Len(stack') = n /\ Depth' = n
      /\ DOMAIN stack' = 1..n /\ DOMAIN stack = 1..d /\ d = Depth /\ n = d + 1
      /\ d \in 1..d /\ n \in 1..n /\ 1..n = 1..d \cup {n} /\ n \notin 1..d
      /\ d \in 0..Depth /\ d <= n /\ 1..d = 1..(d - 1) \cup {d}
      /\ d \notin 1..(d - 1)
  BY <1>0, <1>1, DestructionPushed, StackTypes, SequenceOfCalls DEF Depth, Pushed
<1>4. /\ stack'[d] = [stack[d] EXCEPT !.next = "clear"]
      /\ stack'[n] = Destruction(f)
  BY <1>1, <1>2, DestructionPushed DEF Pushed
<1>5. /\ stack'[n].next = "unwind" /\ ~InOperation(n)'
      /\ stack'[n].frame = f /\ stack'[n].left = {u \in Var : Home[u] = f}
  BY <1>4 DEF Destruction, InOperation
<1>6. /\ stack'[d].next = "clear" /\ InOperation(d)'
      /\ stack'[d].self = s /\ stack[d].self = s
      /\ Kept(d) /\ InOperation(d)
  BY <1>0, <1>1, <1>2, <1>4 DEF Operations, InOperation, Kept
<1>7. /\ \A i \in 1..(d - 1) : Alike(i) /\ stack'[i].next = stack[i].next
      /\ \A i \in 1..d : Kept(i)
  BY <1>1, <1>3, <1>6, DestructionPushed, AlikeKept DEF Below, Alike
<1>8. /\ handle' = handle /\ frame' = [frame EXCEPT ![f] = "dying"]
      /\ handle \in Handles /\ handle \in [Var -> Frame \cup {None}]
  BY <1>0, <1>2 DEF BeginDestroy, TypeOK, Handles
<1>9. /\ frame'[f] = "dying" /\ \A g \in Frame : g # f => frame'[g] = frame[g]
      /\ frame \in [Frame -> {"none", "suspended", "dying", "gone"}]
  BY <1>8 DEF TypeOK
<1>10. frame[f] = "suspended"
  <2>1. ASSUME NEW i \in 1..d, InOperation(i), stack[i].next = "clear"
        PROVE  stack[i].self # s
    BY <1>0, <1>3, <1>6, <2>1 DEF SelfsDiffer
  <2>. QED
    BY <1>2, <1>3, <2>1, DistinctAssumption DEF HandlesAreSound
<1>11. TypeOK'
  BY <1>3, <1>8 DEF TypeOK, Call
<1>12. HandlesAreSound'
  <2>. SUFFICES ASSUME NEW u \in Var, handle[u] # None,
                       frame'[handle[u]] # "suspended"
                PROVE  \E i \in 1..n : /\ InOperation(i)'
                                       /\ stack'[i].next = "clear"
                                       /\ stack'[i].self = u
    BY <1>3, <1>8 DEF HandlesAreSound
  <2>1. CASE u = s
    BY <1>3, <1>6, <2>1
  <2>2. CASE u # s
    <3>1. handle[u] # f /\ handle[u] \in Frame
      BY <1>2, <1>8, <2>2 DEF HandlesAreSound
    <3>2. PICK i \in 1..d : /\ InOperation(i) /\ stack[i].next = "clear"
                            /\ stack[i].self = u
      BY <1>3, <1>9, <3>1 DEF HandlesAreSound
    <3>3. i \in 1..(d - 1)
      BY <1>3, <1>6, <2>2, <3>2
    <3>. QED
      BY <1>3, <1>7, <3>2, <3>3 DEF Kept
  <2>. QED
    BY <2>1, <2>2
<1>13. /\ \A i \in 1..d : Nests(i)' /\ (i < d => Linked(i)') /\ Placed(i)'
       /\ \A i, j \in 1..d : InOperation(i)' /\ InOperation(j)' /\ i # j =>
            stack'[i].self # stack'[j].self
  BY <1>3, <1>7, <1>8, CallsKept
<1>14. CallsNest'
  <2>1. Nests(n)'
    BY <1>3, <1>5, <1>6 DEF Nests
  <2>2. Linked(d)'
    BY <1>2, <1>3, <1>5, <1>6, <1>8 DEF Linked
  <2>. QED
    BY <1>3, <1>13, <2>1, <2>2 DEF CallsNest
<1>15. SelfsDiffer'
  BY <1>3, <1>5, <1>13 DEF SelfsDiffer
<1>16. CallsSound'
  <2>. SUFFICES ASSUME NEW i \in 1..n
                PROVE  /\ InOperation(i)' /\ stack'[i].next = "clear" =>
                            /\ handle[stack'[i].self] # None
                            /\ i = n => frame'[handle[stack'[i].self]] = "gone"
                       /\ InOperation(i)' /\ stack'[i].next = "take" =>
                            handle[stack'[i].self] = None /\ stack'[i].from # None
                       /\ ~InOperation(i)' => frame'[stack'[i].frame] = "dying"
    BY <1>3, <1>8 DEF CallsSound
  <2>1. CASE i = n
    BY <1>5, <1>9, <2>1
  <2>2. CASE i = d
    BY <1>2, <1>3, <1>6, <2>2, DistinctAssumption
  <2>3. CASE i \in 1..(d - 1)
    <3>1. i \in 1..d /\ Kept(i) /\ Alike(i) /\ i # n
      BY <1>3, <1>7, <2>3
    <3>2. ~InOperation(i) => stack[i].frame \in Frame
      BY <1>3, <3>1, CallTypes
    <3>. QED
      BY <1>3, <1>9, <3>1, <3>2 DEF Kept, Alike, CallsSound
  <2>. QED
    BY <1>3, <2>1, <2>2, <2>3
<1>17. Places'
  <2>1. Placed(n)'
    BY <1>5 DEF Placed
  <2>. QED
    BY <1>3, <1>13, <2>1 DEF Places
<1>18. ~Testing'
  BY <1>3, <1>5 DEF Testing
<1>19. RootSpared'
  <2>1. f \in Tree(handle, f)
    BY TreeRoot
  <2>2. \A u \in Var : Home[u] = f => Tree(handle, handle[u]) \subseteq Tree(handle, f)
    BY <1>8, <2>1, TreeNested
  <2>3. ASSUME NEW u \in Var, Spared(u)
        PROVE  Spared(u)'
    <3>. SUFFICES ASSUME Home[u] # Main
                  PROVE  /\ frame'[Home[u]] = "suspended"
                         /\ \A i \in 1..n : ~InOperation(i)' =>
                              \A v \in stack'[i].left :
                                Home[u] \notin Tree(handle, handle[v])
      BY <1>3, <1>8, <1>18 DEF Spared
    <3>1. Home[u] \in Frame /\ Home[u] \notin Tree(handle, f)
      BY <1>0, <1>2, <1>3, <2>3, HomeAssumption DEF Spared, Testing
    <3>2. frame'[Home[u]] = "suspended"
      BY <1>9, <2>1, <2>3, <3>1 DEF Spared
    <3>3. ASSUME NEW i \in 1..d, ~InOperation(i)', NEW v \in stack'[i].left
          PROVE  Home[u] \notin Tree(handle, handle[v])
      BY <1>3, <1>7, <2>3, <3>3 DEF Spared, Kept
    <3>4. ASSUME NEW v \in stack'[n].left
          PROVE  Home[u] \notin Tree(handle, handle[v])
      BY <1>5, <2>2, <3>1
    <3>. QED
      BY <1>3, <3>2, <3>3, <3>4
  <2>4. /\ 1 \in 1..d /\ InOperation(1) /\ Kept(1)
    BY <1>3, <1>7 DEF CallsNest, Nests
  <2>5. stack[1].self \in Var /\ stack[1].from \in Var \cup {None}
    BY <1>3, <2>4, CallTypes
  <2>. QED
    BY <1>3, <2>3, <2>4, <2>5 DEF RootSpared, Kept
<1>20. Acyclic'
  <2>1. \A x \in Var : Lands(stack', x) \subseteq Lands(stack, x)
    BY <1>3, <1>5, <1>7, LandsKept
  <2>. QED
    BY <1>8, <2>1 DEF Acyclic
<1>21. Held'
  <2>. SUFFICES ASSUME NEW u \in Var, handle[u] # None, Home[u] # Main,
                       frame'[Home[u]] # "suspended"
                PROVE  \E i \in 1..n : HeldIn(u, i)'
    BY <1>3, <1>8 DEF Held
  <2>1. CASE Home[u] = f
    BY <1>3, <1>5, <2>1 DEF HeldIn
  <2>2. CASE Home[u] # f
    <3>1. PICK i \in 1..d : HeldIn(u, i)
      BY <1>3, <1>9, <2>2, HomeAssumption DEF Held
    <3>2. i \in 1..(d - 1)
      BY <1>3, <1>6, <3>1 DEF HeldIn
    <3>3. i < d /\ stack'[i].left = stack[i].left /\ Len(stack') \in Nat
      BY <1>3, <1>7, <3>1, <3>2 DEF Alike, HeldIn
    <3>. QED
      BY <1>3, <1>7, <3>1, <3>3, HeldInKept
  <2>. QED
    BY <2>1, <2>2
<1>22. Owned'
  BY <1>8, <1>9 DEF Owned
<1>23. Untouched'
  <2>. SUFFICES ASSUME NEW i \in 1..n, InOperation(i)',
                       stack'[i].from # None, ~stack'[i].touched
                PROVE  /\ handle'[stack'[i].from] = stack'[i].had
                       /\ \A j \in (i + 1)..n : InOperation(j)' =>
                            /\ stack'[j].self # stack'[i].from
                            /\ stack'[j].from # stack'[i].from
    BY <1>3 DEF Untouched
  <2>1. i \in 1..d
    BY <1>3, <1>5
  <2>2. /\ handle'[stack'[i].from] = stack'[i].had
        /\ \A j \in (i + 1)..d : InOperation(j)' =>
             stack'[j].self # stack'[i].from /\ stack'[j].from # stack'[i].from
    BY <1>3, <1>7, <1>8, <2>1, SourcesKept
  <2>3. \A j \in (i + 1)..n : j \in (i + 1)..d \/ j = n
    BY <1>3, <2>1
  <2>. QED
    BY <1>5, <2>2, <2>3
<1>24. EndsPending'
  <2>. SUFFICES ASSUME NEW i \in 1..n, InOperation(i)', NEW g \in stack'[i].ends
                PROVE  frame'[g] = "gone" \/ Pending(g, i)'
    BY <1>3 DEF EndsPending
  <2>1. i \in 1..d /\ InOperation(i) /\ g \in stack[i].ends /\ g \in Frame
    <3>1. i \in 1..d
      BY <1>3, <1>5
    <3>. QED
      BY <1>3, <1>7, <3>1, CallTypes DEF Kept
  <2>2. CASE frame[g] = "gone"
    BY <1>9, <1>10, <2>1, <2>2
  <2>3. CASE g \in Tree(handle, f)
    <3>1. PICK T \in SUBSET Frame :
            T = {f} \cup UNION {Tree(handle, handle[u]) : u \in {v \in Var : Home[v] = f}}
      <4>1. \A u \in Var : Tree(handle, handle[u]) \in SUBSET Frame
        BY <1>8, TreeClosed
      <4>. QED
        BY <4>1
    <3>2. \A x : x \in T <=> x = f \/ \E u \in Var :
                   Home[u] = f /\ x \in Tree(handle, handle[u])
      BY <3>1
    <3>3. Closed(handle, T)
      <4>. SUFFICES ASSUME NEW v \in Var, Home[v] \in T, handle[v] # None
                    PROVE  handle[v] \in T
        BY DEF Closed
      <4>1. CASE Home[v] = f
        <5>1. handle[v] \in Tree(handle, handle[v])
          BY <1>8, TreeRoot
        <5>. QED
          BY <3>2, <4>1, <5>1
      <4>2. CASE Home[v] # f
        <5>1. PICK u \in Var : Home[u] = f /\ Home[v] \in Tree(handle, handle[u])
          BY <3>2, <4>2
        <5>2. handle[v] \in Tree(handle, handle[u])
          BY <1>8, <5>1, TreeClosed DEF Closed
        <5>. QED
          BY <3>2, <5>1, <5>2
      <4>. QED
        BY <4>1, <4>2
    <3>4. g = f \/ \E u \in Var : Home[u] = f /\ g \in Tree(handle, handle[u])
      BY <2>3, <3>2, <3>3, TreeLeast
    <3>5. n \in i..n
      BY <1>3, <2>1
    <3>. QED
      BY <1>3, <1>5, <1>8, <3>4, <3>5 DEF Pending
  <2>4. CASE Pending(g, i) /\ g \notin Tree(handle, f)
    <3>1. PICK j \in i..Depth :
            /\ ~InOperation(j)
            /\ \/ g = stack[j].frame
               \/ \E u \in stack[j].left : g \in Tree(handle, handle[u])
      BY <1>2, <2>4 DEF Pending
    <3>2. j \in 1..d /\ j \in i..d
      BY <1>3, <2>1
    <3>3. Alike(j) /\ Len(stack') \in Nat
      BY <1>3, <1>6, <1>7, <3>1, <3>2
    <3>. QED
      BY <1>3, <1>8, <2>1, <3>1, <3>2, <3>3, PendingKept
  <2>. QED
    BY <1>3, <2>1, <2>2, <2>3, <2>4 DEF EndsPending
<1>. QED
  BY <1>11, <1>12, <1>14, <1>15, <1>16, <1>17, <1>19, <1>20, <1>21, <1>22,
     <1>23, <1>24

LEMMA EndLocalDisciplined ==
  ASSUME Discipline, NEW v \in Var, EndLocal(v)
  PROVE  Discipline'
<1>. USE DEF Discipline
<1>0. /\ At("unwind") /\ Top = stack[Depth] /\ Depth \in 1..Depth
      /\ ~InOperation(Depth) /\ stack[Depth] \in Destructions
      /\ stack[Depth].next = "unwind" /\ Depth \in Nat /\ v \in stack[Depth].left
  BY AtDepth, StackTypes DEF EndLocal
<1>1. PICK d \in Nat, n \in Nat : d = Depth /\ n = d + 1
  BY <1>0
<1>2. /\ stack' \in Seq(Call) /\ Len(stack') = n /\ Depth' = n
      /\ DOMAIN stack' = 1..n /\ DOMAIN stack = 1..d /\ d = Depth /\ n = d + 1
      /\ d \in 1..d /\ n \in 1..n /\ 1..n = 1..d \cup {n} /\ n \notin 1..d
      /\ d \in 0..Depth /\ d <= n /\ 1..d = 1..(d - 1) \cup {d}
      /\ d \notin 1..(d - 1) /\ Len(stack') \in Nat
  <2>1. stack' \in Seq(Call) /\ Len(stack') = n /\ Depth' = n
    BY <1>1, LocalPushed DEF Depth, Pushed
  <2>2. DOMAIN stack' = 1..n /\ DOMAIN stack = 1..d
    BY <1>1, <2>1, StackTypes, SequenceOfCalls
  <2>. QED
    BY <1>0, <1>1, <2>1, <2>2
<1>3. /\ stack'[d] = [stack[d] EXCEPT !.left = @ \ {v}]
      /\ stack'[n] = Operation(v, None)
  BY <1>1, LocalPushed DEF Pushed
<1>4. /\ stack'[n].next = "test" /\ InOperation(n)'
      /\ stack'[n].self = v /\ stack'[n].from = None
      /\ stack'[n].ends = Tree(handle, handle[v])
  BY <1>3, OperationFields, SubtreeIsTree DEF InOperation
<1>5. /\ stack'[d].next = "unwind" /\ ~InOperation(d)' /\ ~InOperation(d)
      /\ stack'[d].frame = stack[d].frame
      /\ stack'[d].left = stack[d].left \ {v} /\ Kept(d)
  BY <1>0, <1>1, <1>3 DEF Destructions, InOperation, Kept
<1>6. /\ \A i \in 1..(d - 1) : Alike(i) /\ stack'[i].next = stack[i].next
      /\ \A i \in 1..d : Kept(i) /\ stack'[i].next = stack[i].next
  BY <1>0, <1>1, <1>2, <1>5, LocalPushed, AlikeKept DEF Below, Alike
<1>7. /\ handle' = handle /\ frame' = frame
      /\ handle \in Handles /\ handle \in [Var -> Frame \cup {None}]
  BY DEF EndLocal, TypeOK, Handles
<1>8. \A i \in 1..d : InOperation(i) => stack[i].self # v /\ stack[i].from # v
  BY <1>0, <1>2, LocalIdle
<1>9. TypeOK'
  BY <1>2, <1>7 DEF TypeOK, Call
<1>10. HandlesAreSound'
  <2>. SUFFICES ASSUME NEW u \in Var, handle[u] # None,
                       frame[handle[u]] # "suspended"
                PROVE  \E i \in 1..n : /\ InOperation(i)'
                                       /\ stack'[i].next = "clear"
                                       /\ stack'[i].self = u
    BY <1>2, <1>7 DEF HandlesAreSound
  <2>1. PICK i \in 1..d : /\ InOperation(i) /\ stack[i].next = "clear"
                          /\ stack[i].self = u
    BY <1>2 DEF HandlesAreSound
  <2>. QED
    BY <1>2, <1>6, <2>1 DEF Kept
<1>11. /\ \A i \in 1..d : Nests(i)' /\ (i < d => Linked(i)') /\ Placed(i)'
       /\ \A i, j \in 1..d : InOperation(i)' /\ InOperation(j)' /\ i # j =>
            stack'[i].self # stack'[j].self
  BY <1>2, <1>6, <1>7, CallsKept
<1>12. CallsNest'
  <2>1. Nests(n)'
    BY <1>2, <1>4, <1>5 DEF Nests
  <2>2. Linked(d)'
    BY <1>5 DEF Linked
  <2>. QED
    BY <1>2, <1>11, <2>1, <2>2 DEF CallsNest
<1>13. SelfsDiffer'
  BY <1>2, <1>4, <1>6, <1>8, <1>11 DEF SelfsDiffer, Kept
<1>14. CallsSound'
  BY <1>2, <1>4, <1>5, <1>6, <1>7 DEF CallsSound, Kept
<1>15. Places'
  <2>1. Home[v] = stack'[d].frame /\ v \notin stack'[d].left
    BY <1>0, <1>1, <1>5 DEF Places, Placed
  <2>2. Placed(n)'
    BY <1>2, <1>4, <2>1 DEF Placed
  <2>. QED
    BY <1>2, <1>11, <2>2 DEF Places
<1>16. RootSpared'
  <2>1. ASSUME NEW u \in Var, Spared(u)
        PROVE  Spared(u)'
    <3>. SUFFICES ASSUME Home[u] # Main
                  PROVE  /\ frame[Home[u]] = "suspended"
                         /\ \A i \in 1..n : ~InOperation(i)' =>
                              \A w \in stack'[i].left :
                                Home[u] \notin Tree(handle, handle[w])
                         /\ Home[u] \notin Tree(handle, handle[v])
      BY <1>2, <1>4, <1>7 DEF Spared
    <3>1. Home[u] \notin Tree(handle, handle[v])
      BY <1>0, <2>1 DEF Spared
    <3>2. ASSUME NEW i \in 1..d, ~InOperation(i)', NEW w \in stack'[i].left
          PROVE  Home[u] \notin Tree(handle, handle[w])
      BY <1>2, <1>6, <2>1, <3>2 DEF Spared, Kept
    <3>. QED
      BY <1>2, <1>4, <2>1, <3>1, <3>2 DEF Spared
  <2>2. /\ 1 \in 1..d /\ InOperation(1) /\ Kept(1)
    BY <1>2, <1>6 DEF CallsNest, Nests
  <2>3. stack[1].self \in Var /\ stack[1].from \in Var \cup {None}
    BY <1>2, <2>2, CallTypes
  <2>. QED
    BY <1>2, <2>1, <2>2, <2>3 DEF RootSpared, Kept
<1>17. Acyclic'
  <2>1. \A x \in Var : Lands(stack', x) \subseteq Lands(stack, x)
    BY <1>2, <1>4, <1>6, LandsKept
  <2>. QED
    BY <1>7, <2>1 DEF Acyclic
<1>18. Held'
  <2>. SUFFICES ASSUME NEW u \in Var, handle[u] # None, Home[u] # Main,
                       frame[Home[u]] # "suspended"
                PROVE  \E i \in 1..n : HeldIn(u, i)'
    BY <1>2, <1>7 DEF Held
  <2>1. PICK i \in 1..d : HeldIn(u, i)
    BY <1>2 DEF Held
  <2>2. CASE i = d
    <3>1. u \in stack[d].left /\ stack[d].frame = Home[u]
      BY <1>2, <2>1, <2>2 DEF HeldIn
    <3>2. u \in stack'[d].left \/ (d < n /\ stack'[d + 1].self = u)
      BY <1>2, <1>4, <1>5, <3>1
    <3>. QED
      BY <1>2, <1>5, <3>1, <3>2 DEF HeldIn
  <2>3. CASE i \in 1..(d - 1)
    <3>1. i < d /\ (~InOperation(i) => stack'[i].left = stack[i].left)
      BY <1>2, <1>6, <2>3 DEF Alike
    <3>2. ~InOperation(i)
      BY <2>1 DEF HeldIn
    <3>. QED
      BY <1>2, <1>6, <2>1, <3>1, <3>2, HeldInKept
  <2>. QED
    BY <1>2, <2>1, <2>2, <2>3
<1>19. Owned'
  BY <1>7 DEF Owned
<1>20. Untouched'
  <2>. SUFFICES ASSUME NEW i \in 1..n, InOperation(i)',
                       stack'[i].from # None, ~stack'[i].touched
                PROVE  /\ handle'[stack'[i].from] = stack'[i].had
                       /\ \A j \in (i + 1)..n : InOperation(j)' =>
                            /\ stack'[j].self # stack'[i].from
                            /\ stack'[j].from # stack'[i].from
    BY <1>2 DEF Untouched
  <2>1. i \in 1..d
    BY <1>2, <1>4
  <2>2. /\ handle'[stack'[i].from] = stack'[i].had
        /\ \A j \in (i + 1)..d : InOperation(j)' =>
             stack'[j].self # stack'[i].from /\ stack'[j].from # stack'[i].from
    BY <1>2, <1>6, <1>7, <2>1, SourcesKept
  <2>3. stack'[i].from # v
    BY <1>6, <1>8, <2>1 DEF Kept
  <2>4. \A j \in (i + 1)..n : j \in (i + 1)..d \/ j = n
    BY <1>2, <2>1
  <2>. QED
    BY <1>4, <2>2, <2>3, <2>4
<1>21. EndsPending'
  <2>. SUFFICES ASSUME NEW i \in 1..n, InOperation(i)', NEW g \in stack'[i].ends
                PROVE  frame[g] = "gone" \/ Pending(g, i)'
    BY <1>2, <1>7 DEF EndsPending
  <2>1. CASE g \in Tree(handle, handle[v])
    BY <1>2, <1>4, <1>7, <2>1 DEF Pending, Testing
  <2>2. CASE i \in 1..d /\ Pending(g, i) /\ g \notin Tree(handle, handle[v])
    <3>1. PICK j \in i..d :
            /\ ~InOperation(j)
            /\ \/ g = stack[j].frame
               \/ \E u \in stack[j].left : g \in Tree(handle, handle[u])
      BY <1>0, <1>2, <2>2 DEF Pending, Testing
    <3>2. j \in 1..d /\ j \in i..n
      BY <1>2, <2>2
    <3>3. CASE j = d
      BY <1>2, <1>5, <1>7, <2>2, <3>1, <3>2, <3>3 DEF Pending
    <3>4. CASE j # d
      <4>1. Alike(j)
        BY <1>2, <1>6, <3>2, <3>4
      <4>. QED
        BY <1>2, <1>7, <2>2, <3>1, <3>2, <4>1, PendingKept
    <3>. QED
      BY <3>3, <3>4
  <2>3. i \in 1..d => InOperation(i) /\ g \in stack[i].ends
    BY <1>6 DEF Kept
  <2>. QED
    BY <1>2, <1>4, <2>1, <2>2, <2>3 DEF EndsPending
<1>. QED
  BY <1>9, <1>10, <1>12, <1>13, <1>14, <1>15, <1>16, <1>17, <1>18, <1>19, <1>20,
     <1>21

LEMMA EndDestroyDisciplined ==
  ASSUME Discipline, EndDestroy
  PROVE  Discipline'
<1>. USE DEF Discipline
<1>0. /\ At("unwind") /\ Top = stack[Depth] /\ Depth \in 1..Depth
      /\ ~InOperation(Depth) /\ stack[Depth] \in Destructions
      /\ stack[Depth].next = "unwind" /\ Depth \in Nat /\ stack[Depth].left = {}
      /\ stack # <<>>
  BY AtDepth, StackTypes DEF EndDestroy, At
<1>1. PICK d \in Nat, F \in Frame : d = Depth - 1 /\ F = stack[Depth].frame
  BY <1>0 DEF Destructions
<1>2. /\ stack' \in Seq(Call) /\ Len(stack') = d /\ Depth' = d
      /\ DOMAIN stack' = 1..d /\ DOMAIN stack = 1..Depth /\ d = Depth - 1
      /\ d \in 0..Depth /\ 1..d \subseteq 1..Depth /\ Len(stack') \in 0..Depth
      /\ 1..Depth = 1..d \cup {Depth} /\ Depth \notin 1..d
  BY <1>0, <1>1, StackPopped, StackTypes, SequenceOfCalls
  DEF EndDestroy, Depth, Popped
<1>3. \A i \in 1..d : Alike(i) /\ Kept(i)
  BY <1>0, <1>1, StackPopped, AlikeKept DEF EndDestroy, Popped, Below
<1>4. /\ d \in 1..d /\ InOperation(d) /\ stack[d].next = "clear"
      /\ F = handle[stack[d].self]
  <2>1. Depth > 1 /\ d \in 1..d /\ d < Depth /\ d + 1 = Depth /\ d \in 1..Depth
    BY <1>0, <1>1, <1>2 DEF CallsNest, Nests
  <2>2. InOperation(d)
    BY <1>0, <1>2, <2>1 DEF CallsNest, Nests
  <2>. QED
    BY <1>1, <2>1, <2>2 DEF CallsNest, Linked
<1>5. /\ handle' = handle /\ frame' = [frame EXCEPT ![F] = "gone"]
      /\ handle \in Handles /\ handle \in [Var -> Frame \cup {None}]
      /\ frame[F] = "dying"
  BY <1>0, <1>1 DEF EndDestroy, TypeOK, Handles, CallsSound
<1>6. /\ frame'[F] = "gone" /\ \A g \in Frame : g # F => frame'[g] = frame[g]
      /\ frame \in [Frame -> {"none", "suspended", "dying", "gone"}]
  BY <1>5 DEF TypeOK
<1>7. \A i \in 1..d : ~InOperation(i) =>
        stack[i].frame \in Frame /\ stack[i].frame # F
  BY <1>0, <1>1, <1>2, FramesDiffer, CallTypes
<1>8. TypeOK'
  BY <1>2, <1>5 DEF TypeOK, Call
<1>9. HandlesAreSound'
  <2>. SUFFICES ASSUME NEW u \in Var, handle[u] # None,
                       frame'[handle[u]] # "suspended"
                PROVE  \E i \in 1..d : /\ InOperation(i)'
                                       /\ stack'[i].next = "clear"
                                       /\ stack'[i].self = u
    BY <1>2, <1>5 DEF HandlesAreSound
  <2>1. handle[u] \in Frame /\ frame[handle[u]] # "suspended"
    BY <1>5, <1>6
  <2>2. PICK i \in 1..Depth : /\ InOperation(i) /\ stack[i].next = "clear"
                              /\ stack[i].self = u
    BY <1>2, <2>1 DEF HandlesAreSound
  <2>3. i \in 1..d
    BY <1>0, <1>2, <2>2
  <2>. QED
    BY <1>3, <2>2, <2>3 DEF Alike, Kept
<1>10. /\ \A i \in 1..d : Nests(i)' /\ (i < d => Linked(i)') /\ Placed(i)'
       /\ \A i, j \in 1..d : InOperation(i)' /\ InOperation(j)' /\ i # j =>
            stack'[i].self # stack'[j].self
  <2>1. \A i \in 1..(d - 1) :
          /\ stack'[i].next = stack[i].next
          /\ InOperation(i) => handle'[stack[i].self] = handle[stack[i].self]
    BY <1>3, <1>5 DEF Alike
  <2>. QED
    BY <1>2, <1>3, <2>1, CallsKept
<1>11. CallsNest' /\ SelfsDiffer' /\ Places'
  BY <1>2, <1>10 DEF CallsNest, SelfsDiffer, Places
<1>12. CallsSound'
  <2>. SUFFICES ASSUME NEW i \in 1..d
                PROVE  /\ InOperation(i)' /\ stack'[i].next = "clear" =>
                            /\ handle[stack'[i].self] # None
                            /\ i = d => frame'[handle[stack'[i].self]] = "gone"
                       /\ InOperation(i)' /\ stack'[i].next = "take" =>
                            handle[stack'[i].self] = None /\ stack'[i].from # None
                       /\ ~InOperation(i)' => frame'[stack'[i].frame] = "dying"
    BY <1>2, <1>5 DEF CallsSound
  <2>1. i = d => stack'[i].self = stack[d].self
    BY <1>3, <1>4 DEF Kept
  <2>. QED
    BY <1>2, <1>3, <1>4, <1>6, <1>7, <2>1 DEF CallsSound, Alike, Kept
<1>13. ~Testing'
  BY <1>2, <1>3, <1>4 DEF Testing, Alike
<1>14. RootSpared'
  <2>1. ASSUME NEW u \in Var, Spared(u)
        PROVE  Spared(u)'
    <3>1. \A f \in Frame : frame[f] = "suspended" => frame'[f] = "suspended"
      BY <1>5, <1>6
    <3>. QED
      BY <1>2, <1>3, <1>5, <1>13, <2>1, <3>1, SparedKept
  <2>2. /\ 1 \in 1..d /\ 1 \in 1..Depth /\ InOperation(1) /\ Kept(1) /\ Depth > 0
    BY <1>2, <1>3, <1>4 DEF CallsNest, Nests
  <2>3. stack[1].self \in Var /\ stack[1].from \in Var \cup {None}
    BY <2>2, CallTypes
  <2>. QED
    BY <1>2, <2>1, <2>2, <2>3 DEF RootSpared, Kept
<1>15. Acyclic'
  <2>1. \A x \in Var : Lands(stack', x) \subseteq Lands(stack, x)
    BY <1>2, <1>3, LandsKept
  <2>. QED
    BY <1>5, <2>1 DEF Acyclic
<1>16. Held'
  <2>. SUFFICES ASSUME NEW u \in Var, handle[u] # None, Home[u] # Main,
                       frame'[Home[u]] # "suspended"
                PROVE  \E i \in 1..d : HeldIn(u, i)'
    BY <1>2, <1>5 DEF Held
  <2>1. frame[Home[u]] # "suspended"
    BY <1>5, <1>6, HomeAssumption
  <2>2. PICK i \in 1..Depth : HeldIn(u, i)
    BY <2>1 DEF Held
  <2>3. i \in 1..d
    BY <1>0, <1>2, <2>2 DEF HeldIn
  <2>4. i < d
    BY <1>2, <1>4, <2>2, <2>3 DEF HeldIn
  <2>5. ~InOperation(i) /\ stack'[i] = stack[i]
    BY <1>3, <2>2, <2>3 DEF Alike, HeldIn
  <2>. QED
    BY <1>2, <1>3, <2>2, <2>3, <2>4, <2>5, HeldInKept
<1>17. Owned'
  BY <1>5, <1>6 DEF Owned
<1>18. Untouched'
  <2>. SUFFICES ASSUME NEW i \in 1..d, InOperation(i)',
                       stack'[i].from # None, ~stack'[i].touched
                PROVE  /\ handle'[stack'[i].from] = stack'[i].had
                       /\ \A j \in (i + 1)..d : InOperation(j)' =>
                            /\ stack'[j].self # stack'[i].from
                            /\ stack'[j].from # stack'[i].from
    BY <1>2 DEF Untouched
  <2>. QED
    BY <1>2, <1>3, <1>5, SourcesKept
<1>19. EndsPending'
  <2>. SUFFICES ASSUME NEW i \in 1..d, InOperation(i)', NEW g \in stack'[i].ends
                PROVE  frame'[g] = "gone" \/ Pending(g, i)'
    BY <1>2 DEF EndsPending
  <2>1. InOperation(i) /\ g \in stack[i].ends /\ g \in Frame /\ i \in 1..Depth
    BY <1>2, <1>3, CallTypes DEF Kept
  <2>2. CASE frame[g] = "gone" \/ g = F
    BY <1>6, <2>1, <2>2
  <2>3. CASE Pending(g, i) /\ g # F
    <3>1. PICK j \in i..Depth :
            /\ ~InOperation(j)
            /\ \/ g = stack[j].frame
               \/ \E u \in stack[j].left : g \in Tree(handle, handle[u])
      BY <1>0, <2>3 DEF Pending, Testing
    <3>2. j # Depth
      BY <1>0, <1>1, <2>3, <3>1
    <3>3. j \in 1..d /\ j \in i..d /\ Len(stack') \in Nat /\ d <= Len(stack')
      BY <1>0, <1>2, <3>2
    <3>. QED
      BY <1>2, <1>3, <1>5, <3>1, <3>3, PendingKept
  <2>. QED
    BY <2>1, <2>2, <2>3 DEF EndsPending
<1>. QED
  BY <1>8, <1>9, <1>11, <1>12, <1>14, <1>15, <1>16, <1>17, <1>18, <1>19

\* The call of the Task v ends or goes on to take: what holds of the handles
\* tells that nothing is left to do for it.
LEMMA ReturnDisciplined ==
  ASSUME Discipline, NEW d \in Nat, d = Depth, d \in 1..d, InOperation(d),
         stack' \in Seq(Call), Popped \/ (stack[d].from # None /\ ToTake),
         stack[d].next = "test" \/ stack[d].next = "clear",
         NEW v \in Var, v = stack[d].self,
         handle[v] = None \/ frame[handle[v]] = "gone",
         handle' = [handle EXCEPT ![v] = None], frame' = frame
  PROVE  Discipline'
<1>. USE DEF Discipline
<1>1. PICK n \in {d - 1, d} : n = Len(stack')
  BY DEF Popped, ToTake
<1>2. /\ Depth' = n /\ n \in Nat /\ Len(stack') = n /\ DOMAIN stack' = 1..n
      /\ DOMAIN stack = 1..d /\ 1..n \subseteq 1..d /\ n \in 0..Depth
      /\ n \in 0..d /\ Len(stack') \in 0..Depth /\ 1..d = 1..(d - 1) \cup {d}
      /\ d \notin 1..(d - 1) /\ (n = d \/ n = d - 1)
  BY <1>1, StackTypes, SequenceOfCalls DEF Depth
<1>3. stack[d] \in Operations
  BY StackTypes
<1>4. n = d => /\ stack[d].from # None /\ stack'[d].next = "take"
               /\ stack'[d] = [stack[d] EXCEPT !.next = "take"]
  BY <1>1, <1>3 DEF Popped, ToTake, Operations
<1>5. n = d => Kept(d)
  BY <1>3, <1>4 DEF Operations, Kept, InOperation
<1>6. /\ \A i \in 1..(d - 1) : Alike(i) /\ stack'[i].next = stack[i].next
      /\ \A i \in 1..n : Kept(i)
  BY <1>2, <1>5, AlikeKept DEF Popped, ToTake, Below, Alike
<1>7. /\ handle'[v] = None
      /\ \A u \in Var : u # v => handle'[u] = handle[u]
      /\ \A u \in Var : handle'[u] \in {handle[u], None}
      /\ handle \in Handles /\ handle \in [Var -> Frame \cup {None}]
      /\ handle' \in Handles
  BY DEF TypeOK, Handles
<1>8. \A i \in 1..d : /\ InOperation(i) /\ i # d => stack[i].self # v
                      /\ InOperation(i) => stack[i].self \in Var
  BY CallTypes DEF SelfsDiffer
<1>9. TypeOK'
  BY <1>7 DEF TypeOK, Call, Handles
<1>10. HandlesAreSound'
  <2>. SUFFICES ASSUME NEW u \in Var, handle'[u] # None
                PROVE  /\ \A w \in Var : handle'[w] = handle'[u] => w = u
                       /\ frame[handle'[u]] # "suspended" =>
                            \E i \in 1..n : /\ InOperation(i)'
                                            /\ stack'[i].next = "clear"
                                            /\ stack'[i].self = u
    BY <1>2 DEF HandlesAreSound
  <2>1. u # v /\ handle'[u] = handle[u]
    BY <1>7
  <2>2. ASSUME NEW w \in Var, handle'[w] = handle'[u]
        PROVE  w = u
    BY <1>7, <2>1, <2>2 DEF HandlesAreSound
  <2>3. ASSUME frame[handle[u]] # "suspended"
        PROVE  \E i \in 1..n : /\ InOperation(i)' /\ stack'[i].next = "clear"
                               /\ stack'[i].self = u
    <3>1. PICK i \in 1..d : /\ InOperation(i) /\ stack[i].next = "clear"
                            /\ stack[i].self = u
      BY <1>2, <2>1, <2>3 DEF HandlesAreSound
    <3>2. i \in 1..(d - 1) /\ i \in 1..n
      BY <1>2, <2>1, <3>1
    <3>. QED
      BY <1>6, <3>1, <3>2 DEF Kept
  <2>. QED
    BY <2>1, <2>2, <2>3
<1>11. /\ \A i \in 1..n : Nests(i)' /\ (i < n => Linked(i)') /\ Placed(i)'
       /\ \A i, j \in 1..n : InOperation(i)' /\ InOperation(j)' /\ i # j =>
            stack'[i].self # stack'[j].self
  <2>1. \A i \in 1..(n - 1) :
          /\ stack'[i].next = stack[i].next
          /\ InOperation(i) => handle'[stack[i].self] = handle[stack[i].self]
    BY <1>2, <1>6, <1>7, <1>8
  <2>. QED
    BY <1>2, <1>6, <2>1, CallsKept
<1>12. CallsNest' /\ SelfsDiffer' /\ Places'
  BY <1>2, <1>11 DEF CallsNest, SelfsDiffer, Places
<1>13. ASSUME n = d - 1, n # 0
       PROVE  n \in 1..n /\ ~InOperation(n) /\ stack'[n].next = "unwind"
  <2>1. n \in 1..(d - 1) /\ n \in 1..n /\ d > 1 /\ d \in 1..Depth
    BY <1>2, <1>13
  <2>2. ~InOperation(n)
    BY <1>13, <2>1 DEF CallsNest, Nests
  <2>. QED
    BY <1>6, <2>1, <2>2 DEF InOperation
<1>14. CallsSound'
  <2>. SUFFICES ASSUME NEW i \in 1..n
                PROVE  /\ InOperation(i)' /\ stack'[i].next = "clear" =>
                            /\ handle'[stack'[i].self] # None
                            /\ i = n => frame[handle'[stack'[i].self]] = "gone"
                       /\ InOperation(i)' /\ stack'[i].next = "take" =>
                            handle'[stack'[i].self] = None /\ stack'[i].from # None
                       /\ ~InOperation(i)' => frame[stack'[i].frame] = "dying"
    BY <1>2 DEF CallsSound
  <2>1. CASE i = d
    <3>1. n = d
      BY <1>2, <2>1
    <3>2. /\ stack'[i].next = "take" /\ stack'[i].self = v
          /\ stack'[i].from # None /\ InOperation(i)'
      BY <1>4, <1>5, <2>1, <3>1 DEF Kept
    <3>. QED
      BY <1>7, <3>2
  <2>2. CASE i # d
    <3>1. i \in 1..(d - 1) /\ i \in 1..d /\ i \in 1..Depth /\ Kept(i) /\ Alike(i)
      BY <1>2, <1>6, <2>2
    <3>2. InOperation(i) => /\ stack'[i].self = stack[i].self
                            /\ handle'[stack[i].self] = handle[stack[i].self]
      BY <1>7, <1>8, <2>2, <3>1 DEF Kept
    <3>3. ~(i = n /\ InOperation(i))
      BY <1>2, <1>13, <2>2, <3>1
    <3>. QED
      BY <3>1, <3>2, <3>3 DEF CallsSound, Alike, Kept
  <2>. QED
    BY <2>1, <2>2
<1>15. ~Testing'
  <2>1. CASE n = d
    BY <1>2, <1>4, <2>1 DEF Testing
  <2>2. CASE n = d - 1
    BY <1>2, <1>13, <2>2 DEF Testing
  <2>. QED
    BY <1>2, <2>1, <2>2
<1>16. /\ \A f : Tree(handle', f) \subseteq Tree(handle, f)
       /\ \A u \in Var :
            Tree(handle', handle'[u]) \subseteq Tree(handle, handle[u])
  <2>1. \A f : Tree(handle', f) \subseteq Tree(handle, f)
    BY <1>7, TreeShrinks
  <2>2. ASSUME NEW u \in Var
        PROVE  Tree(handle', handle'[u]) \subseteq Tree(handle, handle[u])
    BY <1>7, <2>1, TreeOfNone
  <2>. QED
    BY <2>1, <2>2
<1>17. RootSpared'
  <2>1. CASE n = 0
    BY <1>2, <2>1 DEF RootSpared
  <2>2. CASE n # 0
    <3>1. ASSUME NEW u \in Var, Spared(u)
          PROVE  Spared(u)'
      BY <1>2, <1>6, <1>15, <1>16, <3>1, SparedKept
    <3>2. /\ 1 \in 1..n /\ 1 \in 1..Depth /\ InOperation(1) /\ Kept(1) /\ Depth > 0
      BY <1>2, <1>6, <2>2 DEF CallsNest, Nests
    <3>3. stack[1].self \in Var /\ stack[1].from \in Var \cup {None}
      BY <3>2, CallTypes
    <3>. QED
      BY <1>2, <3>1, <3>2, <3>3 DEF RootSpared, Kept
  <2>. QED
    BY <2>1, <2>2
<1>18. Acyclic'
  <2>1. \A x \in Var : Lands(stack', x) \subseteq Lands(stack, x)
    BY <1>2, <1>6, LandsKept
  <2>. QED
    BY <1>16, <2>1 DEF Acyclic
<1>19. Held'
  <2>. SUFFICES ASSUME NEW u \in Var, handle'[u] # None, Home[u] # Main,
                       frame[Home[u]] # "suspended"
                PROVE  \E i \in 1..n : HeldIn(u, i)'
    BY <1>2 DEF Held
  <2>1. u # v /\ handle[u] # None
    BY <1>7
  <2>2. PICK i \in 1..d : HeldIn(u, i)
    BY <2>1 DEF Held
  <2>3. i \in 1..(d - 1) /\ ~InOperation(i)
    BY <1>2, <2>2 DEF HeldIn
  <2>4. u \in stack[i].left \/ i + 1 # d
    BY <2>1, <2>2 DEF HeldIn
  <2>5. /\ i \in 1..n /\ stack'[i] = stack[i] /\ Len(stack') \in Nat
        /\ n <= Len(stack') /\ (u \in stack[i].left \/ i < n)
    BY <1>2, <1>6, <2>3, <2>4, <2>2 DEF Alike, HeldIn
  <2>. QED
    BY <1>2, <1>6, <2>2, <2>5, HeldInKept
<1>20. Owned'
  <2>. SUFFICES ASSUME NEW f \in Frame, frame[f] = "suspended"
                PROVE  \E u \in Var : handle'[u] = f
    BY DEF Owned
  <2>1. PICK u \in Var : handle[u] = f
    BY DEF Owned
  <2>2. u # v
    BY <2>1, DistinctAssumption
  <2>. QED
    BY <1>7, <2>1, <2>2
<1>21. Untouched'
  <2>. SUFFICES ASSUME NEW i \in 1..n, InOperation(i)',
                       stack'[i].from # None, ~stack'[i].touched
                PROVE  /\ handle'[stack'[i].from] = stack'[i].had
                       /\ \A j \in (i + 1)..n : InOperation(j)' =>
                            /\ stack'[j].self # stack'[i].from
                            /\ stack'[j].from # stack'[i].from
    BY <1>2 DEF Untouched
  <2>1. /\ i \in 1..d /\ i \in 1..Depth /\ Kept(i) /\ InOperation(i)
        /\ stack[i].from # None /\ ~stack[i].touched /\ stack[i].from \in Var
    BY <1>2, <1>6, CallTypes DEF Kept
  <2>2. stack[i].from # v
    <3>1. CASE i = d
      BY <2>1, <3>1 DEF Places, Placed
    <3>2. CASE i # d
      <4>1. d \in (i + 1)..Depth
        BY <2>1, <3>2
      <4>. QED
        BY <2>1, <4>1 DEF Untouched
    <3>. QED
      BY <3>1, <3>2
  <2>. QED
    BY <1>2, <1>6, <1>7, <2>1, <2>2, SourcesKept
<1>22. ASSUME NEW g \in Frame, frame[g] # "gone", NEW u \in Var,
              g \in Tree(handle, handle[u])
       PROVE  u # v /\ g \in Tree(handle', handle'[u])
  <2>1. handle[u] \in Frame
    BY <1>7, <1>22, TreeOfNone
  <2>2. CASE handle[v] = None
    <3>1. handle' = handle
      BY <1>7, <2>2
    <3>. QED
      BY <1>22, <2>1, <2>2, <3>1, DistinctAssumption
  <2>3. CASE handle[v] # None
    <3>1. PICK e \in Frame : e = handle[v] /\ frame[e] = "gone"
      BY <1>7, <2>3
    <3>2. Tree(handle, e) = {e} /\ \A w \in Var : Home[w] = e => handle[w] = None
      BY <3>1, NothingInside
    <3>3. u # v
      BY <1>22, <3>1, <3>2
    <3>4. Grafts(handle', handle, v, e)
      BY <1>7, <3>1 DEF Grafts
    <3>5. Tree(handle, handle[u]) \subseteq
            Tree(handle', handle[u]) \cup Tree(handle', e)
      BY <1>7, <2>1, <3>4, TreeGrafts
    <3>6. Tree(handle', e) \subseteq {e}
      BY <1>16, <3>2
    <3>. QED
      BY <1>7, <1>22, <3>1, <3>3, <3>5, <3>6
  <2>. QED
    BY <2>2, <2>3
<1>23. EndsPending'
  <2>. SUFFICES ASSUME NEW i \in 1..n, InOperation(i)', NEW g \in stack'[i].ends,
                       frame[g] # "gone"
                PROVE  Pending(g, i)'
    BY <1>2 DEF EndsPending
  <2>1. /\ InOperation(i) /\ g \in stack[i].ends /\ g \in Frame /\ i \in 1..Depth
        /\ Pending(g, i)
    BY <1>2, <1>6, CallTypes DEF Kept, EndsPending
  <2>2. ~(Testing /\ g \in Tree(handle, handle[stack[Depth].self]))
    BY <1>22, <2>1
  <2>3. PICK j \in i..d :
          /\ ~InOperation(j)
          /\ \/ g = stack[j].frame
             \/ \E u \in stack[j].left : g \in Tree(handle, handle[u])
    BY <2>1, <2>2 DEF Pending
  <2>4. /\ j \in 1..(d - 1) /\ Alike(j) /\ j \in i..n /\ n <= Len(stack')
        /\ Len(stack') \in Nat
    BY <1>2, <1>6, <2>1, <2>3
  <2>5. \A u \in Var : Home[u] \in Frame /\ g \in Tree(handle, handle[u]) =>
          g \in Tree(handle', handle'[u])
    BY <1>22, <2>1
  <2>. QED
    BY <1>2, <2>3, <2>4, <2>5, PendingKept
<1>. QED
  BY <1>9, <1>10, <1>12, <1>14, <1>17, <1>18, <1>19, <1>20, <1>21, <1>23

LEMMA SkipDestroyDisciplined ==
  ASSUME Discipline, SkipDestroy
  PROVE  Discipline'
<1>1. PICK d \in Nat, v \in Var : d = Depth /\ v = stack[Depth].self
  BY AtDepth, StackTypes DEF Discipline, SkipDestroy, Operations
<1>2. /\ d \in 1..d /\ InOperation(d) /\ stack[d].next = "test"
      /\ handle[v] = None
  BY <1>1, AtDepth DEF Discipline, SkipDestroy, Owning
<1>3. /\ stack' \in Seq(Call) /\ (Popped \/ (stack[d].from # None /\ ToTake))
      /\ frame' = frame /\ handle' = handle
  BY <1>1, CallReturned DEF Discipline, SkipDestroy
<1>4. handle' = [handle EXCEPT ![v] = None]
  BY <1>2, <1>3 DEF Discipline, TypeOK
<1>. QED
  BY <1>1, <1>2, <1>3, <1>4, ReturnDisciplined

LEMMA ClearDisciplined ==
  ASSUME Discipline, Clear
  PROVE  Discipline'
<1>1. PICK d \in Nat, v \in Var : d = Depth /\ v = stack[Depth].self
  BY AtDepth, StackTypes DEF Discipline, Clear, Operations
<1>2. /\ d \in 1..d /\ InOperation(d) /\ stack[d].next = "clear"
      /\ Top = stack[d]
  BY <1>1, AtDepth DEF Discipline, Clear
<1>3. /\ stack' \in Seq(Call) /\ (Popped \/ (stack[d].from # None /\ ToTake))
      /\ frame' = frame /\ handle' = [handle EXCEPT ![v] = None]
  BY <1>1, <1>2, CallReturned DEF Discipline, Clear
<1>4. frame[handle[v]] = "gone"
  BY <1>1, <1>2 DEF Discipline, CallsSound
<1>. QED
  BY <1>1, <1>2, <1>3, <1>4, ReturnDisciplined

\* The exchange that ends v = std::move(w).
LEMMA TakeDisciplined ==
  ASSUME Discipline, Take
  PROVE  Discipline'
<1>. USE DEF Discipline
<1>0. /\ At("take") /\ Top = stack[Depth] /\ Depth \in 1..Depth
      /\ InOperation(Depth) /\ stack[Depth] \in Operations
      /\ stack[Depth].next = "take" /\ Depth \in Nat /\ stack # <<>>
      /\ stack[Depth].from # None
  BY AtDepth, StackTypes DEF Take, At, CallsSound
<1>1. PICK d \in Nat, v \in Var : d = Depth /\ v = stack[Depth].self
  BY <1>0 DEF Operations
<1>2. PICK w \in Var : w = stack[d].from
  BY <1>0, <1>1 DEF Operations
<1>3. PICK n \in Nat : n = d - 1
  BY <1>0, <1>1
<1>4. /\ d \in 1..d /\ InOperation(d) /\ stack[d].from = w /\ stack[d].self = v
      /\ stack[d].next = "take" /\ handle[v] = None
      /\ \A i \in 1..d : InOperation(i) => stack[i].self # w
      /\ v # w
  BY <1>0, <1>1, <1>2 DEF CallsSound, Places, Placed
<1>5. /\ stack' \in Seq(Call) /\ Len(stack') = n /\ Depth' = n
      /\ DOMAIN stack' = 1..n /\ DOMAIN stack = 1..d /\ n \in 0..Depth
      /\ 1..n \subseteq 1..d /\ Len(stack') \in 0..Depth
      /\ 1..d = 1..n \cup {d} /\ d \notin 1..n /\ d = n + 1
  BY <1>0, <1>1, <1>3, StackPopped, StackTypes, SequenceOfCalls
  DEF Take, Depth, Popped
<1>6. \A i \in 1..n : Alike(i) /\ Kept(i)
  BY <1>0, <1>1, <1>3, StackPopped, AlikeKept DEF Take, Popped, Below
<1>7. /\ frame' = frame
      /\ handle' = [handle EXCEPT ![w] = None, ![v] = handle[w]]
  BY <1>0, <1>1, <1>2 DEF Take, Exchanged
<1>8. /\ handle'[v] = handle[w] /\ handle'[w] = None
      /\ \A u \in Var : u # v /\ u # w => handle'[u] = handle[u]
      /\ handle \in Handles /\ handle \in [Var -> Frame \cup {None}]
      /\ handle' \in Handles
  BY <1>4, <1>7 DEF TypeOK, Handles
<1>9. \A i \in 1..n : InOperation(i) =>
        /\ stack[i].self # v /\ stack[i].self # w /\ stack[i].self \in Var
        /\ handle'[stack[i].self] = handle[stack[i].self]
  BY <1>1, <1>4, <1>5, <1>8, CallTypes DEF SelfsDiffer
<1>10. n # 0 => /\ Home[v] = Main /\ Home[w] = Main
                /\ n \in 1..n /\ ~InOperation(n) /\ stack'[n].next = "unwind"
  <2>1. ASSUME n # 0
        PROVE  d > 1 /\ n \in 1..n /\ d - 1 = n
    BY <1>5, <2>1
  <2>2. ASSUME n # 0
        PROVE  ~InOperation(n)
    BY <1>1, <1>4, <2>1, <2>2 DEF CallsNest, Nests
  <2>. QED
    BY <1>1, <1>2, <1>4, <1>6, <2>1, <2>2, DistinctAssumption
    DEF Places, Placed, Alike, InOperation
<1>11. ~Testing' /\ ~Testing
  BY <1>1, <1>4, <1>5, <1>10 DEF Testing
<1>12. n # 0 => /\ \A f : Tree(handle', f) = Tree(handle, f)
                /\ \A u \in Var : Home[u] \in Frame => handle'[u] = handle[u]
  <2>1. ASSUME n # 0, NEW u \in Var, Home[u] # Main
        PROVE  handle'[u] = handle[u]
    BY <1>8, <1>10, <2>1
  <2>. QED
    BY <1>8, <2>1, MainTrees, DistinctAssumption
<1>13. TypeOK'
  BY <1>5, <1>7, <1>8 DEF TypeOK, Call, Handles
<1>14. HandlesAreSound'
  <2>. SUFFICES ASSUME NEW u \in Var, handle'[u] # None
                PROVE  /\ \A x \in Var : handle'[x] = handle'[u] => x = u
                       /\ frame[handle'[u]] # "suspended" =>
                            \E i \in 1..n : /\ InOperation(i)'
                                            /\ stack'[i].next = "clear"
                                            /\ stack'[i].self = u
    BY <1>5, <1>7 DEF HandlesAreSound
  <2>1. PICK y \in Var : /\ handle[y] = handle'[u] /\ handle[y] # None
                         /\ u = v => y = w
                         /\ u # v => y = u
                         /\ u # w
    BY <1>8
  <2>2. ASSUME NEW x \in Var, handle'[x] = handle'[u]
        PROVE  x = u
    <3>1. x # w
      BY <1>8, <2>2
    <3>2. CASE x = v
      <4>1. handle[w] = handle[y]
        BY <1>8, <2>1, <2>2, <3>2
      <4>2. w = y
        BY <2>1, <4>1 DEF HandlesAreSound
      <4>. QED
        BY <2>1, <3>2, <4>2
    <3>3. CASE x # v
      <4>1. handle[x] = handle[y]
        BY <1>8, <2>1, <2>2, <3>1, <3>3
      <4>2. x = y
        BY <2>1, <4>1 DEF HandlesAreSound
      <4>. QED
        BY <2>1, <3>1, <4>2
    <3>. QED
      BY <3>2, <3>3
  <2>3. ASSUME frame[handle[y]] # "suspended"
        PROVE  \E i \in 1..n : /\ InOperation(i)' /\ stack'[i].next = "clear"
                               /\ stack'[i].self = u
    <3>1. PICK i \in 1..d : /\ InOperation(i) /\ stack[i].next = "clear"
                            /\ stack[i].self = y
      BY <1>5, <2>1, <2>3 DEF HandlesAreSound
    <3>2. y # w /\ y = u
      BY <1>4, <2>1, <3>1
    <3>3. i \in 1..n
      BY <1>4, <1>5, <3>1
    <3>. QED
      BY <1>6, <3>1, <3>2, <3>3 DEF Alike, Kept
  <2>. QED
    BY <2>1, <2>2, <2>3
<1>15. CallsNest' /\ SelfsDiffer' /\ Places'
  <2>1. \A i \in 1..(n - 1) :
          /\ stack'[i].next = stack[i].next
          /\ InOperation(i) => handle'[stack[i].self] = handle[stack[i].self]
    BY <1>5, <1>6, <1>9 DEF Alike
  <2>2. /\ \A i \in 1..n : Nests(i)' /\ (i < n => Linked(i)') /\ Placed(i)'
        /\ \A i, j \in 1..n : InOperation(i)' /\ InOperation(j)' /\ i # j =>
             stack'[i].self # stack'[j].self
    BY <1>5, <1>6, <2>1, CallsKept
  <2>. QED
    BY <1>5, <2>2 DEF CallsNest, SelfsDiffer, Places
<1>16. CallsSound'
  <2>. SUFFICES ASSUME NEW i \in 1..n
                PROVE  /\ InOperation(i)' /\ stack'[i].next = "clear" =>
                            /\ handle'[stack'[i].self] # None
                            /\ i = n => frame[handle'[stack'[i].self]] = "gone"
                       /\ InOperation(i)' /\ stack'[i].next = "take" =>
                            handle'[stack'[i].self] = None /\ stack'[i].from # None
                       /\ ~InOperation(i)' => frame[stack'[i].frame] = "dying"
    BY <1>5, <1>7 DEF CallsSound
  <2>1. i \in 1..Depth /\ Alike(i) /\ Kept(i)
    BY <1>1, <1>5, <1>6
  <2>2. ~(i = n /\ InOperation(i))
    BY <1>10
  <2>. QED
    BY <1>9, <2>1, <2>2 DEF CallsSound, Alike, Kept
<1>17. RootSpared'
  <2>1. CASE n = 0
    BY <1>5, <2>1 DEF RootSpared
  <2>2. CASE n # 0
    <3>1. /\ \A u \in Var : Home[u] \in Frame =>
               Tree(handle', handle'[u]) \subseteq Tree(handle, handle[u])
          /\ \A f \in Frame : frame[f] = "suspended" => frame'[f] = "suspended"
      BY <1>7, <1>12, <2>2
    <3>2. ASSUME NEW u \in Var, Spared(u)
          PROVE  Spared(u)'
      BY <1>5, <1>6, <1>11, <3>1, <3>2, SparedKept
    <3>3. /\ 1 \in 1..n /\ 1 \in 1..Depth /\ InOperation(1) /\ Kept(1) /\ Depth > 0
      BY <1>1, <1>5, <1>6, <2>2 DEF CallsNest, Nests
    <3>4. stack[1].self \in Var /\ stack[1].from \in Var \cup {None}
      BY <3>3, CallTypes
    <3>. QED
      BY <1>5, <3>2, <3>3, <3>4 DEF RootSpared, Kept
  <2>. QED
    BY <2>1, <2>2
<1>18. Acyclic'
  <2>. SUFFICES ASSUME NEW x \in Var, NEW u \in Lands(stack', x)
                PROVE  Home[u] \notin Tree(handle', handle'[x])
    BY DEF Acyclic
  <2>1. \A y \in Var : Lands(stack', y) \subseteq Lands(stack, y)
    BY <1>1, <1>5, <1>6, LandsKept
  <2>2. u \in Var /\ u \in Lands(stack, x)
    BY <2>1 DEF Lands
  <2>3. \A y \in Var : \A z \in Lands(stack, y) :
          Home[z] \notin Tree(handle, handle[y])
    BY DEF Acyclic
  <2>4. CASE handle[w] = None
    <3>1. \A y \in Var : handle'[y] \in {handle[y], None}
      BY <1>8, <2>4
    <3>2. Tree(handle', handle[x]) \subseteq Tree(handle, handle[x])
      BY <1>8, <3>1, TreeShrinks
    <3>. QED
      BY <2>2, <2>3, <3>1, <3>2, TreeOfNone
  <2>5. CASE handle[w] # None
    <3>1. PICK e \in Frame : e = handle[w]
      BY <1>8, <2>5
    <3>2. v \in Lands(stack, w)
      <4>1. Arrow(stack, w, v)
        BY <1>4, <1>5 DEF Arrow, InOperation
      <4>. QED
        BY <4>1, LandsHere, LandsFlows
    <3>3. Home[v] \notin Tree(handle, e)
      BY <2>3, <3>1, <3>2
    <3>4. ASSUME NEW y \in Var, Home[y] \in Tree(handle, e)
          PROVE  handle'[y] \in {handle[y], None}
      BY <1>8, <3>3, <3>4
    <3>5. Tree(handle', e) \subseteq Tree(handle, e)
      BY <1>8, <3>4, TreeElsewhere
    <3>6. CASE x = v
      <4>1. Lands(stack, v) \subseteq Lands(stack, w)
        <5>1. Lands(stack, w) \in SUBSET Var
          BY DEF Lands
        <5>2. Flows(stack, Lands(stack, w))
          BY <5>1, FlowsByArrow, LandsFlows, TypedStack
        <5>. QED
          BY <3>2, <5>1, <5>2, LandsLeast
      <4>. QED
        BY <1>8, <2>2, <2>3, <3>1, <3>5, <3>6, <4>1
    <3>7. CASE x = w \/ (x # v /\ handle[x] = None)
      BY <1>8, <3>7, TreeOfNone
    <3>8. CASE x # v /\ x # w /\ handle[x] # None
      <4>1. PICK g \in Frame : g = handle[x] /\ g = handle'[x]
        BY <1>8, <3>8
      <4>2. Home[u] \notin Tree(handle, g)
        BY <2>2, <2>3, <4>1
      <4>3. CASE Home[v] \notin Tree(handle, g)
        <5>1. ASSUME NEW y \in Var, Home[y] \in Tree(handle, g)
              PROVE  handle'[y] \in {handle[y], None}
          BY <1>8, <4>3, <5>1
        <5>2. Tree(handle', g) \subseteq Tree(handle, g)
          BY <1>8, <5>1, TreeElsewhere
        <5>. QED
          BY <4>1, <4>2, <5>2
      <4>4. CASE Home[v] \in Tree(handle, g)
        <5>1. Home[v] # Main
          BY <4>4, DistinctAssumption DEF Tree
        <5>2. n = 0
          BY <1>10, <5>1
        <5>3. u = x
          <6>1. \A y, z \in Var : ~Arrow(stack', y, z)
            BY <1>5, <5>2 DEF Arrow
          <6>. QED
            BY <1>5, <2>2, <6>1, SequenceOfCalls, LandsOnlyInSelf
        <5>4. Grafts(handle, handle', v, e)
          BY <1>8, <3>1 DEF Grafts
        <5>5. Tree(handle', g) \subseteq Tree(handle, g) \cup Tree(handle, e)
          BY <1>8, <5>4, TreeGrafts
        <5>6. Home[x] \notin Tree(handle, e)
          <6>1. SUFFICES ASSUME Home[x] \in Tree(handle, e)
                         PROVE  FALSE
            OBVIOUS
          <6>2. Tree(handle, g) \subseteq Tree(handle, e)
            BY <1>8, <4>1, <6>1, TreeNested
          <6>. QED
            BY <3>3, <4>4, <6>2
        <5>. QED
          BY <4>1, <4>2, <5>3, <5>5, <5>6
      <4>. QED
        BY <4>3, <4>4
    <3>. QED
      BY <3>6, <3>7, <3>8
  <2>. QED
    BY <2>4, <2>5
<1>19. Held'
  <2>. SUFFICES ASSUME NEW u \in Var, handle'[u] # None, Home[u] # Main,
                       frame[Home[u]] # "suspended"
                PROVE  \E i \in 1..n : HeldIn(u, i)'
    BY <1>5, <1>7 DEF Held
  <2>1. CASE u = v
    <3>1. n = 0 /\ d = 1
      BY <1>5, <1>10, <2>1
    <3>. QED
      BY <1>1, <1>4, <2>1, <3>1 DEF RootSpared, Spared
  <2>2. CASE u # v
    <3>1. u # w /\ handle[u] # None
      BY <1>8, <2>2
    <3>2. PICK i \in 1..d : HeldIn(u, i)
      BY <1>1, <3>1 DEF Held
    <3>3. i \in 1..n /\ ~InOperation(i)
      BY <1>4, <1>5, <3>2 DEF HeldIn
    <3>4. u \in stack[i].left \/ i + 1 # d
      BY <1>4, <2>2, <3>2 DEF HeldIn
    <3>5. /\ stack'[i] = stack[i] /\ Len(stack') \in Nat
          /\ n <= Len(stack') /\ (u \in stack[i].left \/ i < n)
      BY <1>5, <1>6, <3>3, <3>4 DEF Alike
    <3>. QED
      BY <1>5, <1>6, <3>2, <3>3, <3>5, HeldInKept
  <2>. QED
    BY <2>1, <2>2
<1>20. Owned'
  <2>. SUFFICES ASSUME NEW f \in Frame, frame[f] = "suspended"
                PROVE  \E u \in Var : handle'[u] = f
    BY <1>7 DEF Owned
  <2>1. PICK u \in Var : handle[u] = f
    BY DEF Owned
  <2>2. u # v
    BY <1>4, <2>1, DistinctAssumption
  <2>. QED
    BY <1>8, <2>1, <2>2
<1>21. Untouched'
  <2>. SUFFICES ASSUME NEW i \in 1..n, InOperation(i)',
                       stack'[i].from # None, ~stack'[i].touched
                PROVE  /\ handle'[stack'[i].from] = stack'[i].had
                       /\ \A j \in (i + 1)..n : InOperation(j)' =>
                            /\ stack'[j].self # stack'[i].from
                            /\ stack'[j].from # stack'[i].from
    BY <1>5 DEF Untouched
  <2>1. /\ i \in 1..Depth /\ Kept(i) /\ InOperation(i)
        /\ stack[i].from # None /\ ~stack[i].touched /\ stack[i].from \in Var
    BY <1>1, <1>5, <1>6, CallTypes DEF Kept
  <2>2. d \in (i + 1)..Depth
    BY <1>1, <1>5
  <2>3. stack[i].from # v /\ stack[i].from # w
    BY <1>1, <1>4, <2>1, <2>2 DEF Untouched
  <2>4. handle'[stack[i].from] = handle[stack[i].from]
    BY <1>8, <2>1, <2>3
  <2>. QED
    BY <1>5, <1>6, <2>4, SourcesKept
<1>22. EndsPending'
  <2>. SUFFICES ASSUME NEW i \in 1..n, InOperation(i)', NEW g \in stack'[i].ends,
                       frame[g] # "gone"
                PROVE  Pending(g, i)'
    BY <1>5, <1>7 DEF EndsPending
  <2>1. /\ InOperation(i) /\ g \in stack[i].ends /\ i \in 1..Depth
        /\ Pending(g, i) /\ n # 0
    BY <1>1, <1>5, <1>6 DEF Kept, EndsPending
  <2>2. PICK j \in i..d :
          /\ ~InOperation(j)
          /\ \/ g = stack[j].frame
             \/ \E u \in stack[j].left : g \in Tree(handle, handle[u])
    BY <1>1, <1>11, <2>1 DEF Pending
  <2>3. j # d
    BY <1>4, <2>2
  <2>4. /\ j \in i..n /\ Alike(j) /\ n <= Len(stack') /\ Len(stack') \in Nat
    BY <1>5, <1>6, <2>2, <2>3
  <2>5. \A u \in Var : Home[u] \in Frame /\ g \in Tree(handle, handle[u]) =>
          g \in Tree(handle', handle'[u])
    BY <1>12, <2>1
  <2>. QED
    BY <1>5, <2>2, <2>4, <2>5, PendingKept
<1>. QED
  BY <1>13, <1>14, <1>15, <1>16, <1>17, <1>18, <1>19, <1>20, <1>21, <1>22

-----------------------------------------------------------------------------
(* The theorems.                                                           *)

LEMMA DisciplineInit == Init => Discipline
<1>. SUFFICES ASSUME Init PROVE Discipline
  OBVIOUS
<1>1. /\ stack = <<>> /\ Depth = 0 /\ DOMAIN stack = {}
      /\ \A v \in Var : handle[v] = None
      /\ \A f \in Frame : frame[f] = "none"
  BY DEF Init, Depth
<1>2. TypeOK
  BY DEF Init, TypeOK
<1>3. HandlesAreSound /\ Held /\ Owned
  BY <1>1 DEF HandlesAreSound, Held, Owned
<1>4. /\ CallsNest /\ SelfsDiffer /\ CallsSound /\ Places /\ RootSpared
      /\ Untouched /\ EndsPending
  BY <1>1
  DEF CallsNest, SelfsDiffer, CallsSound, Places, RootSpared, Untouched,
      EndsPending
<1>5. Acyclic
  BY <1>1, TreeOfNone DEF Acyclic
<1>. QED
  BY <1>2, <1>3, <1>4, <1>5 DEF Discipline

LEMMA DisciplineStutters ==
  ASSUME Discipline, UNCHANGED vars
  PROVE  Discipline'
<1>. /\ handle' = handle /\ frame' = frame /\ stack' = stack
  BY DEF vars
<1>. USE DEF InOperation, Depth, Testing, Discipline
<1>1. TypeOK' /\ HandlesAreSound'
  BY DEF TypeOK, HandlesAreSound
<1>2. CallsNest' /\ SelfsDiffer' /\ CallsSound' /\ Places'
  BY DEF CallsNest, Nests, Linked, SelfsDiffer, CallsSound, Places, Placed
<1>3. RootSpared' /\ Acyclic'
  BY DEF RootSpared, Spared, Acyclic
<1>4. Held' /\ Owned' /\ Untouched'
  BY DEF Held, HeldIn, Owned, Untouched
<1>5. EndsPending'
  BY DEF EndsPending, Pending
<1>. QED
  BY <1>1, <1>2, <1>3, <1>4, <1>5

LEMMA DisciplineStep == Discipline /\ [Next]_vars => Discipline'
<1>. SUFFICES ASSUME Discipline, [Next]_vars PROVE Discipline'
  OBVIOUS
<1>1. ASSUME NEW v \in Var, NEW f \in Frame, Create(v, f) PROVE Discipline'
  BY <1>1, CreateDisciplined
<1>2. ASSUME NEW v \in Var, Destroy(v) PROVE Discipline'
  BY <1>2, DestroyDisciplined
<1>3. ASSUME NEW v \in Var, NEW w \in Var, Assign(v, w) PROVE Discipline'
  BY <1>3, AssignDisciplined
<1>4. CASE BeginDestroy
  BY <1>4, BeginDestroyDisciplined
<1>5. CASE SkipDestroy
  BY <1>5, SkipDestroyDisciplined
<1>6. ASSUME NEW v \in Var, EndLocal(v) PROVE Discipline'
  BY <1>6, EndLocalDisciplined
<1>7. CASE EndDestroy
  BY <1>7, EndDestroyDisciplined
<1>8. CASE Clear
  BY <1>8, ClearDisciplined
<1>9. CASE Take
  BY <1>9, TakeDisciplined
<1>10. CASE UNCHANGED vars
  BY <1>10, DisciplineStutters
<1>. QED
  BY <1>1, <1>2, <1>3, <1>4, <1>5, <1>6, <1>7, <1>8, <1>9, <1>10 DEF Next

LEMMA DisciplineInvariant == Spec => []Discipline
BY DisciplineInit, DisciplineStep, PTL DEF Spec

\* The handles, frames and calls keep their types.
THEOREM TypeCorrect == Spec => []TypeOK
<1>1. Discipline => TypeOK
  BY DEF Discipline
<1>. QED
  BY <1>1, DisciplineInvariant, PTL

\* Whatever the destructors of locals do, no reset() runs twice on a Task at a
\* time, and destroy() is called once on a frame.
THEOREM CallsAreSingle == Spec => []OneCallEach
<1>1. Discipline => OneCallEach
  <2>. SUFFICES ASSUME Discipline, NEW i \in DOMAIN stack, NEW j \in DOMAIN stack,
                       i # j
                PROVE  /\ InOperation(i) /\ InOperation(j) =>
                            stack[i].self # stack[j].self
                       /\ ~InOperation(i) /\ ~InOperation(j) =>
                            stack[i].frame # stack[j].frame
    BY DEF OneCallEach
  <2>1. i \in 1..Depth /\ j \in 1..Depth
    BY StackTypes DEF Discipline
  <2>. QED
    BY <2>1, FramesDiffer DEF Discipline, SelfsDiffer
<1>. QED
  BY <1>1, DisciplineInvariant, PTL

\* No two Tasks own a frame, and no Task holds the handle of a frame that has
\* ended, save between destroy() and handle_ = {} of its own reset().
THEOREM HandlesStaySound == Spec => []HandlesAreSound
<1>1. Discipline => HandlesAreSound
  BY DEF Discipline
<1>. QED
  BY <1>1, DisciplineInvariant, PTL

\* No frame leaks while others are being destroyed, not even when the Task that
\* owns it is a local of one of them.
THEOREM NothingIsForgotten == Spec => []NothingForgotten
<1>1. Discipline => NothingForgotten
  <2>. SUFFICES ASSUME Discipline, NEW f \in Frame, frame[f] = "suspended"
                PROVE  \E v \in Var :
                         /\ handle[v] = f
                         /\ \/ Home[v] = Main \/ v \in Busy
                            \/ frame[Home[v]] = "suspended"
                            \/ \E i \in DOMAIN stack :
                                 /\ ~InOperation(i) /\ stack[i].frame = Home[v]
                                 /\ v \in stack[i].left
    BY DEF NothingForgotten
  <2>1. PICK v \in Var : handle[v] = f /\ handle[v] # None
    BY DistinctAssumption DEF Discipline, Owned
  <2>2. CASE Home[v] = Main \/ frame[Home[v]] = "suspended"
    BY <2>1, <2>2
  <2>3. ASSUME NEW i \in 1..Depth, HeldIn(v, i)
        PROVE  v \in Busy \/ (~InOperation(i) /\ stack[i].frame = Home[v]
                              /\ v \in stack[i].left)
    <3>1. CASE v \in stack[i].left
      BY <2>3, <3>1 DEF HeldIn
    <3>2. CASE v \notin stack[i].left
      <4>1. /\ Depth \in Nat /\ DOMAIN stack = 1..Depth
            /\ i < Depth /\ stack[i + 1].self = v /\ ~InOperation(i)
        BY <2>3, <3>2, StackTypes DEF Discipline, HeldIn
      <4>2. i + 1 \in DOMAIN stack /\ i + 1 \in 1..Depth /\ i + 1 > 1
            /\ (i + 1) - 1 = i
        BY <4>1
      <4>3. InOperation(i + 1)
        BY <4>1, <4>2 DEF Discipline, CallsNest, Nests
      <4>. QED
        BY <4>1, <4>2, <4>3 DEF Busy
    <3>. QED
      BY <3>1, <3>2
  <2>4. DOMAIN stack = 1..Depth
    BY StackTypes DEF Discipline
  <2>. QED
    BY <2>1, <2>2, <2>3, <2>4 DEF Discipline, Held
<1>. QED
  BY <1>1, DisciplineInvariant, PTL

\* When reset() is over, all that hung from its Task at the call has ended.
THEOREM WholeTreesEnd == Spec => TreesEnd
<1>1. Discipline /\ [Next]_vars =>
        [SkipDestroy \/ Clear => \A f \in Top.ends : frame[f] = "gone"]_vars
  <2>. SUFFICES ASSUME Discipline, SkipDestroy \/ Clear, NEW f \in Top.ends
                PROVE  frame[f] = "gone"
    OBVIOUS
  <2>1. PICK n \in {"test", "clear"} :
          /\ At(n)
          /\ n = "test" => handle[Top.self] = None
    BY DEF SkipDestroy, Clear, Owning
  <2>2. /\ Depth \in Nat /\ Depth \in 1..Depth /\ Top = stack[Depth]
        /\ stack[Depth].next = n /\ InOperation(Depth)
    BY <2>1, AtDepth, StackTypes DEF Discipline
  <2>3. ASSUME Pending(f, Depth)
        PROVE  FALSE
    <3>1. \A j \in Depth..Depth : j = Depth
      BY <2>2
    <3>2. Testing /\ f \in Tree(handle, handle[stack[Depth].self])
      BY <2>2, <2>3, <3>1 DEF Pending
    <3>. QED
      BY <2>1, <2>2, <3>2, TreeOfNone DEF Testing
  <2>. QED
    BY <2>2, <2>3 DEF Discipline, EndsPending
<1>. QED
  BY <1>1, DisciplineInvariant, PTL DEF Spec, TreesEnd

\* v = std::move(w) gives v what w owned at the call, unless a destructor it ran
\* used w: no destructor can have had w in a call of its own meanwhile.
THEOREM AssignmentsTransfer == Spec => AssignTransfers
<1>1. Discipline /\ [Next]_vars =>
        [At("take") /\ ~Top.touched =>
           handle'[Top.self] = Top.had /\ handle'[Top.from] = None]_vars
  <2>. SUFFICES ASSUME Discipline, Next, At("take"), ~Top.touched
                PROVE  handle'[Top.self] = Top.had /\ handle'[Top.from] = None
    OBVIOUS
  <2>1. ASSUME NEW v \in Var
        PROVE  ~Usable(v)
    BY DEF Usable, At
  <2>2. Take
    BY <2>1 DEF Next, Create, Destroy, Assign, BeginDestroy, SkipDestroy,
                EndLocal, EndDestroy, Clear, At
  <2>3. /\ Depth \in 1..Depth /\ Top = stack[Depth] /\ InOperation(Depth)
        /\ stack[Depth].next = "take" /\ stack[Depth] \in Operations
    BY AtDepth DEF Discipline
  <2>4. stack[Depth].from # None /\ stack[Depth].from # stack[Depth].self
    BY <2>3 DEF Discipline, CallsSound, Places, Placed
  <2>5. handle[stack[Depth].from] = stack[Depth].had
    BY <2>3, <2>4 DEF Discipline, Untouched
  <2>6. /\ stack[Depth].self \in Var /\ stack[Depth].from \in Var
        /\ handle \in [Var -> Frame \cup {None}]
    BY <2>3, <2>4 DEF Operations, Discipline, TypeOK
  <2>. QED
    BY <2>2, <2>3, <2>4, <2>5, <2>6 DEF Take, Exchanged
<1>. QED
  BY <1>1, DisciplineInvariant, PTL DEF Spec, AssignTransfers

-----------------------------------------------------------------------------
(***************************************************************************)
(* The abstraction of reset() to one step.  The frames that the            *)
(* destructions in progress will reach have ended already for those who    *)
(* see whole operations: Owners has the steps that are left.               *)
(***************************************************************************)

\* A frame is being destroyed only by a call in progress.
Called ==
  \A f \in Frame : frame[f] = "dying" =>
    \E i \in 1..Depth : ~InOperation(i) /\ stack[i].frame = f

\* The k outermost calls stay, and every destruction that goes on is of them.
LEMMA CalledKept ==
  ASSUME Discipline, Called, NEW k \in 0..Depth, Len(stack') \in Nat,
         k <= Len(stack'), \A i \in 1..k : Kept(i),
         NEW f \in Frame, frame[f] = "dying",
         \A i \in 1..Depth : ~InOperation(i) /\ stack[i].frame = f => i <= k
  PROVE  \E i \in 1..Depth' : ~InOperation(i)' /\ stack'[i].frame = f
<1>1. PICK i \in 1..Depth : ~InOperation(i) /\ stack[i].frame = f
  BY DEF Called
<1>2. Depth \in Nat /\ i \in 1..k /\ i \in 1..Depth'
  BY <1>1, StackTypes DEF Discipline, Depth
<1>. QED
  BY <1>1, <1>2 DEF Kept

LEMMA CalledAll ==
  ASSUME Discipline, Called, NEW k \in 0..Depth, Len(stack') \in Nat,
         k <= Len(stack'), \A i \in 1..k : Kept(i), frame' = frame,
         \A i \in 1..Depth : ~InOperation(i) => i <= k
  PROVE  Called'
<1>1. ASSUME NEW f \in Frame, frame'[f] = "dying"
      PROVE  \E i \in 1..Depth' : ~InOperation(i)' /\ stack'[i].frame = f
  BY <1>1, CalledKept
<1>. QED
  BY <1>1 DEF Called

LEMMA CalledInit == Init => Called
BY DEF Init, Called

LEMMA CalledStep ==
  ASSUME Discipline, Called, [Next]_vars
  PROVE  Called'
<1>. USE DEF Discipline
<1>0. PICK d \in Nat : d = Depth
  BY StackTypes
<1>1. ASSUME NEW v \in Var, NEW f \in Frame, Create(v, f)
      PROVE  Called'
  <2>1. /\ Len(stack') = d /\ \A i \in 1..d : Kept(i)
        /\ \A g \in Frame : frame'[g] = "dying" => frame[g] = "dying"
    BY <1>0, <1>1, CreateCalls DEF Create, TypeOK
  <2>. QED
    BY <1>0, <2>1, CalledKept DEF Called
<1>2. ASSUME NEW V, NEW v \in Var, NEW w \in Var \cup {None},
             stack' = Append(Touched(V), Operation(v, w)), frame' = frame
      PROVE  Called'
  <2>1. Len(stack') = d + 1 /\ \A i \in 1..d : Kept(i)
    BY <1>0, <1>2, CallPushed, AlikeKept DEF Pushed, Below
  <2>2. d \in 0..Depth /\ Len(stack') \in Nat /\ d <= Len(stack')
    BY <1>0, <2>1
  <2>. QED
    BY <1>0, <1>2, <2>1, <2>2, CalledAll
<1>3. CASE BeginDestroy
  <2>1. /\ At("test") /\ d \in 1..d /\ InOperation(d)
        /\ Top = stack[d] /\ stack[d].self \in Var /\ stack[d] \in Operations
    BY <1>0, <1>3, AtDepth DEF BeginDestroy, Operations
  <2>2. PICK f \in Frame : f = handle[stack[d].self]
    BY <1>3, <2>1 DEF BeginDestroy, Owning, TypeOK
  <2>3. /\ Len(stack') = d + 1 /\ stack'[d + 1] = Destruction(f)
        /\ \A i \in 1..(d - 1) : Kept(i)
        /\ frame' = [frame EXCEPT ![f] = "dying"]
    BY <1>0, <1>3, <2>1, <2>2, DestructionPushed, AlikeKept
    DEF Pushed, Below, BeginDestroy
  <2>4. Depth' = d + 1 /\ d + 1 \in 1..(d + 1)
    BY <2>3 DEF Depth
  <2>5. ~InOperation(d + 1)' /\ stack'[d + 1].frame = f
    BY <2>3 DEF Destruction, InOperation
  <2>6. ASSUME NEW g \in Frame, g # f, frame'[g] = "dying"
        PROVE  \E i \in 1..Depth' : ~InOperation(i)' /\ stack'[i].frame = g
    <3>1. frame[g] = "dying"
      BY <2>3, <2>6 DEF TypeOK
    <3>2. PICK i \in 1..d : ~InOperation(i) /\ stack[i].frame = g
      BY <1>0, <3>1 DEF Called
    <3>3. i \in 1..(d - 1) /\ i \in 1..(d + 1)
      BY <2>1, <3>2
    <3>. QED
      BY <2>3, <2>4, <3>2, <3>3 DEF Kept
  <2>. QED
    BY <2>4, <2>5, <2>6 DEF Called
<1>4. CASE SkipDestroy \/ Clear
  <2>1. PICK n \in {"test", "clear"} : At(n) /\ stack' = Returned
    BY <1>4 DEF SkipDestroy, Clear
  <2>2. /\ d \in 1..d /\ InOperation(d) /\ frame' = frame
        /\ Popped \/ ToTake
    BY <1>0, <1>4, <2>1, AtDepth, CallReturned DEF SkipDestroy, Clear
  <2>3. /\ Len(stack') \in {d - 1, d} /\ \A i \in 1..(d - 1) : Kept(i)
    BY <1>0, <2>2, AlikeKept DEF Popped, ToTake, Below
  <2>4. \A i \in 1..d : ~InOperation(i) => i <= d - 1
    BY <2>2
  <2>5. d - 1 \in 0..Depth /\ Len(stack') \in Nat /\ d - 1 <= Len(stack')
    BY <1>0, <2>2, <2>3
  <2>. QED
    BY <1>0, <2>2, <2>3, <2>4, <2>5, CalledAll
<1>5. ASSUME NEW v \in Var, EndLocal(v)
      PROVE  Called'
  <2>1. /\ ~InOperation(d) /\ d \in 1..d /\ stack[d] \in Destructions
        /\ frame' = frame
    BY <1>0, <1>5, AtDepth DEF EndLocal
  <2>2. /\ Len(stack') = d + 1 /\ \A i \in 1..(d - 1) : Kept(i)
        /\ stack'[d] = [stack[d] EXCEPT !.left = @ \ {v}]
    BY <1>0, <1>5, LocalPushed, AlikeKept DEF Pushed, Below
  <2>3. Kept(d)
    BY <2>1, <2>2 DEF Kept, InOperation, Destructions
  <2>4. \A i \in 1..d : Kept(i)
    BY <2>1, <2>2, <2>3
  <2>. QED
    BY <1>0, <2>1, <2>2, <2>4, CalledKept DEF Called
<1>6. CASE EndDestroy
  <2>1. /\ ~InOperation(d) /\ d \in 1..d /\ stack[d] \in Destructions
        /\ Top = stack[d] /\ stack # <<>>
    BY <1>0, <1>6, AtDepth DEF EndDestroy, At
  <2>2. /\ Len(stack') = d - 1 /\ \A i \in 1..(d - 1) : Kept(i)
        /\ frame' = [frame EXCEPT ![stack[d].frame] = "gone"]
    BY <1>0, <1>6, <2>1, StackPopped, AlikeKept DEF EndDestroy, Popped, Below
  <2>3. ASSUME NEW f \in Frame, frame'[f] = "dying"
        PROVE  \E i \in 1..Depth' : ~InOperation(i)' /\ stack'[i].frame = f
    <3>1. f # stack[d].frame /\ frame[f] = "dying"
      BY <2>1, <2>2, <2>3 DEF TypeOK, Destructions
    <3>2. \A i \in 1..d : stack[i].frame = f => i <= d - 1
      BY <2>1, <3>1
    <3>. QED
      BY <1>0, <2>1, <2>2, <3>1, <3>2, CalledKept
  <2>. QED
    BY <2>3 DEF Called
<1>7. CASE Take
  <2>1. /\ InOperation(d) /\ d \in 1..d /\ stack # <<>> /\ frame' = frame
    BY <1>0, <1>7, AtDepth DEF Take, At
  <2>2. Len(stack') = d - 1 /\ \A i \in 1..(d - 1) : Kept(i)
    BY <1>0, <1>7, <2>1, StackPopped, AlikeKept DEF Take, Popped, Below
  <2>3. \A i \in 1..d : ~InOperation(i) => i <= d - 1
    BY <2>1
  <2>4. d - 1 \in 0..Depth /\ Len(stack') \in Nat /\ d - 1 <= Len(stack')
    BY <1>0, <2>1, <2>2
  <2>. QED
    BY <1>0, <2>1, <2>2, <2>3, <2>4, CalledAll
<1>8. CASE UNCHANGED vars
  BY <1>8 DEF vars, Called, InOperation, Depth
<1>9. ASSUME NEW v \in Var, Destroy(v)
      PROVE  Called'
  BY <1>2, <1>9 DEF Destroy
<1>10. ASSUME NEW v \in Var, NEW w \in Var, Assign(v, w)
       PROVE  Called'
  BY <1>2, <1>10 DEF Assign
<1>. QED
  BY <1>1, <1>3, <1>4, <1>5, <1>6, <1>7, <1>8, <1>9, <1>10 DEF Next

\* The frames that the destructions in progress reach, for the handles h and
\* the frames fr.
Reached(h, fr) ==
  {g \in Frame : \A S \in SUBSET Frame :
     (\A f \in Frame : fr[f] = "dying" => f \in S) /\ Closed(h, S) => g \in S}

LEMMA EndingIsReached ==
  Ending = Reached(handle, frame) /\ Ending' = Reached(handle', frame')
BY DEF Ending, Reached, Closed

LEMMA ReachedLeast ==
  ASSUME NEW h, NEW fr, NEW S \in SUBSET Frame,
         \A f \in Frame : fr[f] = "dying" => f \in S, Closed(h, S)
  PROVE  Reached(h, fr) \subseteq S
BY DEF Reached

LEMMA ReachedClosed ==
  ASSUME NEW h \in Handles, NEW fr
  PROVE  /\ Reached(h, fr) \in SUBSET Frame
         /\ \A f \in Frame : fr[f] = "dying" => f \in Reached(h, fr)
         /\ Closed(h, Reached(h, fr))
<1>1. ASSUME NEW v \in Var, Home[v] \in Reached(h, fr), h[v] # None
      PROVE  h[v] \in Reached(h, fr)
  <2>1. h[v] \in Frame
    BY <1>1 DEF Handles
  <2>2. ASSUME NEW S \in SUBSET Frame,
               \A f \in Frame : fr[f] = "dying" => f \in S, Closed(h, S)
        PROVE  h[v] \in S
    <3>1. Home[v] \in S
      BY <1>1, <2>2 DEF Reached
    <3>. QED
      BY <1>1, <2>2, <3>1 DEF Closed
  <2>. QED
    BY <2>1, <2>2 DEF Reached
<1>. QED
  BY <1>1 DEF Reached, Closed

\* Nothing is reached when nothing is being destroyed.
LEMMA ReachedNothing ==
  ASSUME NEW h, NEW fr, \A f \in Frame : fr[f] # "dying"
  PROVE  Reached(h, fr) = {}
<1>1. Closed(h, {})
  BY DEF Closed
<1>. QED
  BY <1>1, ReachedLeast

\* What a Task of the program is given or gives away is not reached by that.
LEMMA ReachedSame ==
  ASSUME NEW h, NEW g, NEW fr, NEW gr,
         \A v \in Var : Home[v] \in Frame => g[v] = h[v],
         \A f \in Frame : gr[f] = "dying" <=> fr[f] = "dying"
  PROVE  Reached(g, gr) = Reached(h, fr)
<1>1. \A S \in SUBSET Frame : Closed(g, S) <=> Closed(h, S)
  BY DEF Closed
<1>. QED
  BY <1>1 DEF Reached

\* f begins to end and is outside of what was reached: its tree is in.
LEMMA ReachedMore ==
  ASSUME NEW h \in Handles, NEW fr, NEW gr, NEW f \in Frame,
         \A g \in Frame : gr[g] = "dying" <=> (fr[g] = "dying" \/ g = f)
  PROVE  Reached(h, gr) = Reached(h, fr) \cup Tree(h, f)
<1>. DEFINE S == Reached(h, fr) \cup Tree(h, f)
            R == Reached(h, gr)
<1>1. /\ Reached(h, fr) \in SUBSET Frame /\ Closed(h, Reached(h, fr))
      /\ \A g \in Frame : fr[g] = "dying" => g \in Reached(h, fr)
      /\ Tree(h, f) \in SUBSET Frame /\ Closed(h, Tree(h, f))
      /\ f \in Tree(h, f)
  BY ReachedClosed, TreeClosed, TreeRoot
<1>2. R \subseteq S
  <2>1. /\ S \in SUBSET Frame /\ Closed(h, S)
        /\ \A g \in Frame : gr[g] = "dying" => g \in S
    BY <1>1 DEF Closed
  <2>. HIDE DEF S
  <2>. QED
    BY <2>1, ReachedLeast
<1>3. S \subseteq R
  <2>1. /\ R \in SUBSET Frame /\ Closed(h, R) /\ f \in R
        /\ \A g \in Frame : fr[g] = "dying" => g \in R
    BY ReachedClosed
  <2>. HIDE DEF R
  <2>2. Reached(h, fr) \subseteq R /\ Tree(h, f) \subseteq R
    BY <2>1, ReachedLeast, TreeLeast
  <2>. QED
    BY <2>2
<1>. QED
  BY <1>2, <1>3

\* An ended frame that owns nothing drops out, and nothing else does.
LEMMA ReachedLess ==
  ASSUME NEW h \in Handles, NEW g \in Handles, NEW fr, NEW gr, NEW f \in Frame,
         \A e \in Frame : gr[e] = "dying" => fr[e] = "dying",
         \A e \in Frame : fr[e] = "dying" => gr[e] = "dying" \/ e = f,
         \A v \in Var : Home[v] = f => h[v] = None,
         \A v \in Var : g[v] = h[v] \/ (h[v] = f /\ g[v] = None)
  PROVE  /\ Reached(g, gr) \subseteq Reached(h, fr)
         /\ Reached(h, fr) \subseteq Reached(g, gr) \cup {f}
<1>. DEFINE R == Reached(h, fr)
            Q == Reached(g, gr)
            S == Q \cup {f}
<1>1. /\ R \in SUBSET Frame /\ Closed(h, R)
      /\ \A e \in Frame : fr[e] = "dying" => e \in R
      /\ Q \in SUBSET Frame /\ Closed(g, Q)
      /\ \A e \in Frame : gr[e] = "dying" => e \in Q
  BY ReachedClosed
<1>. HIDE DEF R, Q
<1>2. Closed(g, R) /\ \A e \in Frame : gr[e] = "dying" => e \in R
  BY <1>1 DEF Closed
<1>3. Q \subseteq R
  BY <1>1, <1>2, ReachedLeast DEF Q
<1>4. /\ S \in SUBSET Frame /\ \A e \in Frame : fr[e] = "dying" => e \in S
      /\ Closed(h, S)
  BY <1>1 DEF Closed
<1>. HIDE DEF S
<1>5. R \subseteq S
  BY <1>4, ReachedLeast DEF R
<1>. QED
  BY <1>3, <1>5 DEF R, Q, S

\* A pair is the place of a frame that has not begun to end and the frame.
LEMMA LinksAre ==
  /\ \A e : e \in Links <=>
       \E v \in Var : handle[v] \in Intact /\ e = <<Home[v], handle[v]>>
  /\ \A e : e \in Links' <=>
       \E v \in Var : handle'[v] \in Intact' /\ e = <<Home[v], handle'[v]>>
BY HomeAssumption DEF Links

\* What holds an intact frame is Main or intact itself.
LEMMA IntactHeld ==
  ASSUME Discipline, NEW v \in Var, handle[v] \in Intact
  PROVE  Home[v] \in Intact \cup {Main}
<1>1. handle \in Handles /\ handle[v] \in Frame /\ handle[v] # None
  BY DistinctAssumption DEF Discipline, TypeOK, Handles, Intact
<1>2. Home[v] \notin Ending
  BY <1>1, EndingIsReached, ReachedClosed DEF Closed, Intact
<1>3. ASSUME NEW i \in 1..Depth, HeldIn(v, i)
      PROVE  Home[v] \in Ending
  <2>1. frame[stack[i].frame] = "dying" /\ stack[i].frame \in Frame
    BY <1>3, CallTypes DEF Discipline, CallsSound, HeldIn
  <2>. QED
    BY <1>1, <1>3, <2>1, EndingIsReached, ReachedClosed DEF HeldIn
<1>. QED
  BY <1>1, <1>2, <1>3, HomeAssumption DEF Discipline, Held, Intact

\* Among the intact frames, those below f are those of its tree.
LEMMA BelowIsTree ==
  ASSUME Discipline, NEW f \in Intact
  PROVE  /\ Forest!Below(f) \subseteq Tree(handle, f)
         /\ Tree(handle, f) \cap Intact \subseteq Forest!Below(f)
<1>. DEFINE Under(S) == \A e \in Links : e[1] \in S => e[2] \in S
<1>1. /\ handle \in Handles /\ handle \in [Var -> Frame \cup {None}]
      /\ f \in Frame
  BY DEF Discipline, TypeOK, Handles, Intact
<1>2. ASSUME NEW S
      PROVE  Under(S) <=> \A v \in Var :
                            handle[v] \in Intact /\ Home[v] \in S => handle[v] \in S
  <2>1. ASSUME Under(S), NEW v \in Var, handle[v] \in Intact, Home[v] \in S
        PROVE  handle[v] \in S
    <3>1. <<Home[v], handle[v]>> \in Links
      BY <2>1, LinksAre
    <3>2. <<Home[v], handle[v]>>[1] = Home[v] /\ <<Home[v], handle[v]>>[2] = handle[v]
      OBVIOUS
    <3>. QED
      BY <2>1, <3>1, <3>2
  <2>2. ASSUME \A v \in Var :
                 handle[v] \in Intact /\ Home[v] \in S => handle[v] \in S,
               NEW e \in Links, e[1] \in S
        PROVE  e[2] \in S
    <3>1. PICK v \in Var : handle[v] \in Intact /\ e = <<Home[v], handle[v]>>
      BY <2>2, LinksAre
    <3>2. e[1] = Home[v] /\ e[2] = handle[v]
      BY <3>1
    <3>. QED
      BY <2>2, <3>1, <3>2
  <2>. QED
    BY <2>1, <2>2
<1>3. \A g : g \in Forest!Below(f) <=>
               g \in Frame /\ \A S \in SUBSET Frame : f \in S /\ Under(S) => g \in S
  BY DEF Forest!Below
<1>. HIDE DEF Under
<1>4. Forest!Below(f) \subseteq Tree(handle, f)
  <2>1. /\ Tree(handle, f) \in SUBSET Frame /\ f \in Tree(handle, f)
        /\ Closed(handle, Tree(handle, f))
    BY <1>1, TreeClosed, TreeRoot
  <2>2. Under(Tree(handle, f))
    BY <1>2, <2>1, DistinctAssumption DEF Closed, Intact
  <2>. QED
    BY <1>3, <2>1, <2>2
<1>5. ASSUME NEW g \in Tree(handle, f) \cap Intact
      PROVE  g \in Forest!Below(f)
  <2>1. ASSUME NEW S \in SUBSET Frame, f \in S, Under(S)
        PROVE  g \in S
    <3>. DEFINE T == S \cup (Frame \ Intact)
    <3>1. ASSUME NEW v \in Var, Home[v] \in T, handle[v] # None
          PROVE  handle[v] \in T
      <4>1. CASE handle[v] \notin Intact
        BY <1>1, <3>1, <4>1
      <4>2. CASE handle[v] \in Intact
        <5>1. Home[v] \in S
          BY <3>1, <4>2, IntactHeld, DistinctAssumption
        <5>. QED
          BY <1>2, <2>1, <4>2, <5>1
      <4>. QED
        BY <4>1, <4>2
    <3>2. T \in SUBSET Frame /\ f \in T /\ Closed(handle, T)
      BY <2>1, <3>1 DEF Closed
    <3>. HIDE DEF T
    <3>3. Tree(handle, f) \subseteq T
      BY <3>2, TreeLeast
    <3>. QED
      BY <1>5, <3>3 DEF T
  <2>2. g \in Frame
    BY DEF Intact
  <2>. QED
    BY <1>3, <2>1, <2>2
<1>. QED
  BY <1>4, <1>5

\* A Task that may be used is in a place where frames may be put.
LEMMA UsablePlace ==
  ASSUME Discipline, Called, NEW v \in Var,
         Home[v] # Main => Depth = 0 /\ frame[Home[v]] = "suspended"
  PROVE  Home[v] \in Intact \cup {Main}
<1>1. CASE Home[v] # Main
  <2>0. 1..Depth = {}
    BY <1>1
  <2>1. \A f \in Frame : frame[f] # "dying"
    BY <2>0 DEF Called
  <2>2. Ending = {}
    BY <2>1, EndingIsReached, ReachedNothing
  <2>. QED
    BY <1>1, <2>2, HomeAssumption DEF Intact
<1>. QED
  BY <1>1

\* The step changes no frame that is intact, nor where it is.
LEMMA ForestStutters ==
  ASSUME \A f \in Frame : frame'[f] = "none" <=> frame[f] = "none",
         Intact' = Intact,
         \A v \in Var : \/ handle'[v] = handle[v]
                        \/ handle[v] \notin Intact /\ handle'[v] \notin Intact
  PROVE  UNCHANGED Forest!ovars
<1>1. {f \in Frame : frame'[f] # "none"} = {f \in Frame : frame[f] # "none"}
  OBVIOUS
<1>2. ASSUME NEW e
      PROVE  e \in Links' <=> e \in Links
  BY LinksAre
<1>3. Links' = Links
  <2>1. Links' \subseteq Links /\ Links \subseteq Links'
    BY <1>2
  <2>. QED
    BY <2>1
<1>. QED
  BY <1>1, <1>3 DEF Forest!ovars

\* A step that neither gives a Task another frame nor ends one.
LEMMA ForestQuiet ==
  ASSUME UNCHANGED <<handle, frame>>
  PROVE  UNCHANGED Forest!ovars
<1>1. Ending' = Ending
  BY EndingIsReached
<1>. QED
  BY <1>1, ForestStutters DEF Intact

LEMMA CreateBegins ==
  ASSUME Discipline, Called, NEW v \in Var, NEW f \in Frame, Create(v, f)
  PROVE  /\ Forest!Begin(f, Home[v])
         /\ Home[v] \in Intact \cup {Main} /\ frame[f] = "none"
<1>1. /\ frame[f] = "none" /\ frame'[f] = "suspended" /\ handle[v] = None
      /\ \A g \in Frame : g # f => frame'[g] = frame[g]
      /\ handle'[v] = f /\ \A u \in Var : u # v => handle'[u] = handle[u]
      /\ handle \in Handles /\ handle' \in Handles
  BY DEF Create, Discipline, TypeOK, Handles
<1>2. \A u \in Var : handle[u] # f
  BY <1>1, LiveHandles, DistinctAssumption
<1>3. Home[v] # Main => Depth = 0 /\ frame[Home[v]] = "suspended"
  BY UsableDepth DEF Create, Discipline
<1>4. Home[v] \in Intact \cup {Main}
  BY <1>3, UsablePlace
<1>5. Ending' = Ending
  <2>1. CASE Home[v] = Main
    <3>1. \A u \in Var : Home[u] \in Frame => handle'[u] = handle[u]
      BY <1>1, <2>1, DistinctAssumption
    <3>2. \A g \in Frame : frame'[g] = "dying" <=> frame[g] = "dying"
      BY <1>1
    <3>. QED
      BY <3>1, <3>2, EndingIsReached, ReachedSame
  <2>2. CASE Home[v] # Main
    <3>0. 1..Depth = {}
      BY <1>3, <2>2
    <3>1. \A g \in Frame : frame[g] # "dying" /\ frame'[g] # "dying"
      BY <1>1, <3>0 DEF Called
    <3>. QED
      BY <3>1, EndingIsReached, ReachedNothing
  <2>. QED
    BY <2>1, <2>2
<1>6. f \notin Ending
  <2>. DEFINE S == Frame \ {f}
  <2>1. S \in SUBSET Frame /\ \A g \in Frame : frame[g] = "dying" => g \in S
    BY <1>1
  <2>2. Closed(handle, S)
    BY <1>1, <1>2 DEF Closed, Handles
  <2>. HIDE DEF S
  <2>3. Ending \subseteq S
    BY <2>1, <2>2, EndingIsReached, ReachedLeast
  <2>. QED
    BY <2>3 DEF S
<1>7. Intact' = Intact \cup {f}
  BY <1>1, <1>5, <1>6 DEF Intact
<1>8. {g \in Frame : frame'[g] # "none"} = {g \in Frame : frame[g] # "none"} \cup {f}
  BY <1>1
<1>9. Links' = Links \cup {<<Home[v], f>>}
  <2>1. ASSUME NEW e
        PROVE  e \in Links' <=> e \in Links \/ e = <<Home[v], f>>
    <3>1. ASSUME e \in Links'
          PROVE  e \in Links \/ e = <<Home[v], f>>
      <4>1. PICK u \in Var : handle'[u] \in Intact' /\ e = <<Home[u], handle'[u]>>
        BY <3>1, LinksAre
      <4>. QED
        BY <1>1, <1>2, <1>7, <4>1, LinksAre
    <3>2. ASSUME e \in Links
          PROVE  e \in Links'
      <4>1. PICK u \in Var : handle[u] \in Intact /\ e = <<Home[u], handle[u]>>
        BY <3>2, LinksAre
      <4>2. u # v
        BY <1>1, <4>1, DistinctAssumption DEF Intact
      <4>. QED
        BY <1>1, <1>7, <4>1, <4>2, LinksAre
    <3>3. <<Home[v], f>> \in Links'
      BY <1>1, <1>7, LinksAre
    <3>. QED
      BY <3>1, <3>2, <3>3
  <2>. QED
    BY <2>1
<1>10. f \notin {g \in Frame : frame[g] # "none"}
  BY <1>1
<1>. QED
  BY <1>1, <1>4, <1>7, <1>8, <1>9, <1>10 DEF Forest!Begin

\* destroy() begins on a frame that a destruction in progress would reach, or
\* it is the end of the whole tree.
LEMMA BeginDestroyEnds ==
  ASSUME Discipline, BeginDestroy
  PROVE  UNCHANGED Forest!ovars \/ \E f \in Intact : Forest!End(f)
<1>1. /\ At("test") /\ Top = stack[Depth] /\ Depth \in 1..Depth
      /\ InOperation(Depth) /\ stack[Depth] \in Operations
      /\ stack[Depth].next = "test" /\ DOMAIN stack = 1..Depth
  BY AtDepth, StackTypes DEF BeginDestroy, Discipline
<1>2. PICK s \in Var, f \in Frame : s = stack[Depth].self /\ f = handle[s]
  BY <1>1 DEF BeginDestroy, Owning, Discipline, TypeOK, Operations
<1>3. /\ handle' = handle /\ handle \in Handles /\ frame'[f] = "dying"
      /\ \A g \in Frame : g # f => frame'[g] = frame[g]
  BY <1>1, <1>2 DEF BeginDestroy, Discipline, TypeOK, Handles
<1>4. frame[f] = "suspended"
  <2>1. ASSUME NEW i \in 1..Depth, InOperation(i), stack[i].next = "clear"
        PROVE  stack[i].self # s
    BY <1>1, <1>2, <2>1 DEF Discipline, SelfsDiffer
  <2>. QED
    BY <1>1, <1>2, <2>1, DistinctAssumption DEF Discipline, HandlesAreSound
<1>5. Ending' = Ending \cup Tree(handle, f)
  BY <1>3, EndingIsReached, ReachedMore
<1>6. f \in Tree(handle, f) /\ Tree(handle, f) \subseteq Frame
  BY <1>3, TreeRoot, TreeClosed
<1>7. Intact' = Intact \ Tree(handle, f)
  BY <1>3, <1>5, <1>6 DEF Intact
<1>8. {g \in Frame : frame'[g] # "none"} = {g \in Frame : frame[g] # "none"}
  BY <1>3, <1>4
<1>9. CASE f \in Ending
  <2>1. Tree(handle, f) \subseteq Ending
    BY <1>3, <1>9, EndingIsReached, ReachedClosed, TreeLeast
  <2>2. Intact' = Intact
    BY <1>7, <2>1 DEF Intact
  <2>3. \A g \in Frame : frame'[g] = "none" <=> frame[g] = "none"
    BY <1>3, <1>4
  <2>. QED
    BY <1>3, <2>2, <2>3, ForestStutters
<1>10. CASE f \notin Ending
  <2>1. f \in Intact
    BY <1>4, <1>10 DEF Intact
  <2>. DEFINE D == Forest!Below(f)
  <2>2. D \subseteq Tree(handle, f) /\ Tree(handle, f) \cap Intact \subseteq D
    BY <2>1, BelowIsTree
  <2>. HIDE DEF D
  <2>3. Intact' = Intact \ D
    BY <1>7, <2>2
  <2>4. ASSUME NEW e
        PROVE  e \in Links' <=> e \in Links /\ e[2] \notin D
    <3>1. ASSUME e \in Links'
          PROVE  e \in Links /\ e[2] \notin D
      <4>1. PICK u \in Var : handle'[u] \in Intact' /\ e = <<Home[u], handle'[u]>>
        BY <3>1, LinksAre
      <4>2. handle[u] \in Intact \ D /\ e = <<Home[u], handle[u]>>
        BY <1>3, <2>3, <4>1
      <4>. QED
        BY <4>2, LinksAre
    <3>2. ASSUME e \in Links, e[2] \notin D
          PROVE  e \in Links'
      <4>1. PICK u \in Var : handle[u] \in Intact /\ e = <<Home[u], handle[u]>>
        BY <3>2, LinksAre
      <4>2. handle'[u] \in Intact' /\ e = <<Home[u], handle'[u]>>
        BY <1>3, <2>3, <3>2, <4>1
      <4>. QED
        BY <4>2, LinksAre
    <3>. QED
      BY <3>1, <3>2
  <2>5. Links' = {e \in Links : e[2] \notin D}
    BY <2>4
  <2>. QED
    BY <1>8, <2>1, <2>3, <2>5 DEF D, Forest!End, Forest!Drop
<1>. QED
  BY <1>9, <1>10

\* What a frame had ended with it.
Emptied ==
  \A v \in Var : Home[v] \in Frame /\ frame[Home[v]] = "gone" => handle[v] = None

LEMMA GoneAreEmptied == Discipline => Emptied
BY NothingInside DEF Emptied

\* destroy() returns, and then reset(), when those frames have ended already.
LEMMA ReturnsAreQuiet ==
  ASSUME Discipline, Discipline', EndDestroy \/ Clear
  PROVE  UNCHANGED Forest!ovars
<1>1. ASSUME EndDestroy
      PROVE  UNCHANGED Forest!ovars
  <2>1. /\ Top = stack[Depth] /\ Depth \in 1..Depth /\ stack[Depth] \in Destructions
        /\ ~InOperation(Depth)
    BY <1>1, AtDepth DEF EndDestroy, Discipline
  <2>2. PICK f \in Frame : f = stack[Depth].frame
    BY <2>1 DEF Destructions
  <2>3. /\ handle' = handle /\ handle \in Handles
        /\ frame[f] = "dying" /\ frame'[f] = "gone"
        /\ \A g \in Frame : g # f => frame'[g] = frame[g]
    BY <1>1, <2>1, <2>2 DEF EndDestroy, Discipline, TypeOK, Handles, CallsSound
  <2>4. \A v \in Var : Home[v] = f => handle[v] = None
    <3>1. Emptied'
      BY GoneAreEmptied, PTL
    <3>. QED
      BY <2>3, <3>1 DEF Emptied
  <2>5. Ending' \subseteq Ending /\ Ending \subseteq Ending' \cup {f}
    BY <2>3, <2>4, EndingIsReached, ReachedLess
  <2>6. Intact' = Intact
    BY <2>3, <2>5 DEF Intact
  <2>7. \A g \in Frame : frame'[g] = "none" <=> frame[g] = "none"
    BY <2>3
  <2>. QED
    BY <2>3, <2>6, <2>7, ForestStutters
<1>2. ASSUME Clear
      PROVE  UNCHANGED Forest!ovars
  <2>1. /\ Top = stack[Depth] /\ Depth \in 1..Depth /\ stack[Depth] \in Operations
        /\ InOperation(Depth) /\ stack[Depth].next = "clear"
    BY <1>2, AtDepth DEF Clear, Discipline
  <2>2. PICK s \in Var, f \in Frame :
          s = stack[Depth].self /\ f = handle[s] /\ frame[f] = "gone"
    BY <2>1 DEF Operations, Discipline, CallsSound, TypeOK
  <2>3. /\ handle'[s] = None /\ \A v \in Var : v # s => handle'[v] = handle[v]
        /\ handle \in Handles /\ handle' \in Handles /\ frame' = frame
    BY <1>2, <2>1, <2>2 DEF Clear, Discipline, TypeOK, Handles
  <2>4. \A v \in Var : Home[v] = f => handle[v] = None
    BY <2>2, NothingInside
  <2>5. Ending' \subseteq Ending /\ Ending \subseteq Ending' \cup {f}
    BY <2>2, <2>3, <2>4, EndingIsReached, ReachedLess
  <2>6. Intact' = Intact /\ f \notin Intact /\ None \notin Intact
    BY <2>2, <2>3, <2>5, DistinctAssumption DEF Intact
  <2>. QED
    BY <2>2, <2>3, <2>6, ForestStutters
<1>. QED
  BY <1>1, <1>2

\* The exchange gives the frame of the source, if there is one, its new place.
LEMMA TakeMoves ==
  ASSUME Discipline, Called, Take
  PROVE  \/ UNCHANGED Forest!ovars
         \/ \E f \in Intact, p \in Intact \cup {Main} : Forest!Move(f, p)
<1>1. /\ Top = stack[Depth] /\ Depth \in 1..Depth /\ stack[Depth] \in Operations
      /\ InOperation(Depth) /\ stack[Depth].next = "take"
      /\ Depth \in Nat /\ DOMAIN stack = 1..Depth
  BY AtDepth, StackTypes DEF Take, Discipline
<1>2. PICK v \in Var, w \in Var :
        /\ v = stack[Depth].self /\ w = stack[Depth].from /\ v # w
        /\ handle[v] = None
  BY <1>1 DEF Operations, Discipline, CallsSound, Places, Placed
<1>3. /\ handle'[v] = handle[w] /\ handle'[w] = None /\ frame' = frame
      /\ \A u \in Var : u # v /\ u # w => handle'[u] = handle[u]
      /\ handle \in Handles /\ handle' \in Handles
  BY <1>1, <1>2 DEF Take, Exchanged, Discipline, TypeOK, Handles
<1>4. \/ Depth = 1
      \/ Home[v] = Main /\ Home[w] = Main
  BY <1>1, <1>2, DistinctAssumption DEF Discipline, Places, Placed
<1>5. ASSUME Depth = 1, NEW f \in Frame
      PROVE  frame[f] # "dying"
  <2>1. \A i \in 1..Depth : i = Depth
    BY <1>5
  <2>. QED
    BY <1>1, <2>1 DEF Called
<1>6. Ending' = Ending /\ (Depth = 1 => Ending = {})
  <2>1. CASE Depth = 1
    BY <1>3, <1>5, <2>1, EndingIsReached, ReachedNothing
  <2>2. CASE Depth # 1
    BY <1>3, <1>4, <2>2, EndingIsReached, ReachedSame, DistinctAssumption
  <2>. QED
    BY <2>1, <2>2
<1>7. Intact' = Intact /\ None \notin Intact
  BY <1>3, <1>6, DistinctAssumption DEF Intact
<1>8. Home[v] \in Intact \cup {Main}
  <2>1. CASE Depth = 1
    BY <1>1, <1>2, <1>6, <2>1, HomeAssumption
    DEF Discipline, RootSpared, Spared, Intact
  <2>. QED
    BY <1>4, <2>1
<1>9. CASE handle[w] \notin Intact
  BY <1>2, <1>3, <1>7, <1>9, ForestStutters
<1>10. CASE handle[w] \in Intact
  <2>1. PICK f \in Intact : f = handle[w]
    BY <1>10
  <2>2. Home[v] \notin Forest!Below(f)
    <3>1. Arrow(stack, w, v)
      BY <1>1, <1>2 DEF Arrow, InOperation
    <3>2. v \in Lands(stack, w)
      BY <3>1, LandsHere, LandsFlows
    <3>3. Home[v] \notin Tree(handle, f)
      BY <2>1, <3>2 DEF Discipline, Acyclic
    <3>. QED
      BY <3>3, BelowIsTree
  <2>3. \A u \in Var : handle[u] = f => u = w
    BY <1>7, <2>1 DEF Discipline, HandlesAreSound
  <2>4. ASSUME NEW e
        PROVE  e \in Links' <=> (e \in Links /\ e[2] # f) \/ e = <<Home[v], f>>
    <3>1. ASSUME e \in Links'
          PROVE  (e \in Links /\ e[2] # f) \/ e = <<Home[v], f>>
      <4>1. PICK u \in Var : handle'[u] \in Intact /\ e = <<Home[u], handle'[u]>>
        BY <1>7, <3>1, LinksAre
      <4>2. CASE u = v
        BY <1>3, <2>1, <4>1, <4>2
      <4>3. CASE u # v
        <5>1. u # w /\ handle'[u] = handle[u]
          BY <1>3, <1>7, <4>1, <4>3
        <5>2. handle[u] # f /\ e[2] = handle[u]
          BY <2>3, <4>1, <5>1
        <5>. QED
          BY <4>1, <5>1, <5>2, LinksAre
      <4>. QED
        BY <4>2, <4>3
    <3>2. ASSUME e \in Links, e[2] # f
          PROVE  e \in Links'
      <4>1. PICK u \in Var : handle[u] \in Intact /\ e = <<Home[u], handle[u]>>
        BY <3>2, LinksAre
      <4>2. u # w /\ u # v
        BY <1>2, <1>7, <2>1, <3>2, <4>1
      <4>. QED
        BY <1>3, <1>7, <4>1, <4>2, LinksAre
    <3>3. <<Home[v], f>> \in Links'
      BY <1>3, <1>7, <2>1, LinksAre
    <3>. QED
      BY <3>1, <3>2, <3>3
  <2>5. Links' = {e \in Links : e[2] # f} \cup {<<Home[v], f>>}
    BY <2>4
  <2>6. {g \in Frame : frame'[g] # "none"} = {g \in Frame : frame[g] # "none"}
    BY <1>3
  <2>7. Forest!Move(f, Home[v])
    BY <1>7, <1>8, <2>2, <2>5, <2>6 DEF Forest!Move, Forest!Given
  <2>. QED
    BY <1>8, <2>7
<1>. QED
  BY <1>9, <1>10

\* Teardown implements Owners: whatever destructors do, between two statements of
\* reset() nobody can tell that the end of a tree of frames takes time.
THEOREM TeardownImplementsOwners == Spec => ImplementsOwners
<1>1. Init => Forest!OInit
  <2>. SUFFICES ASSUME Init PROVE Forest!OInit
    OBVIOUS
  <2>1. Intact = {} /\ {f \in Frame : frame[f] # "none"} = {}
    BY DEF Init, Intact
  <2>2. Links = {}
    BY <2>1 DEF Links
  <2>. QED
    BY <2>1, <2>2 DEF Forest!OInit
<1>2. Discipline /\ Discipline' /\ Called /\ [Next]_vars
        => [Forest!ONext]_(Forest!ovars)
  <2>. SUFFICES ASSUME Discipline, Discipline', Called, [Next]_vars
                PROVE  Forest!ONext \/ UNCHANGED Forest!ovars
    OBVIOUS
  <2>1. ASSUME NEW v \in Var, NEW f \in Frame, Create(v, f)
        PROVE  Forest!ONext
    BY <2>1, CreateBegins DEF Forest!ONext
  <2>2. CASE BeginDestroy
    BY <2>2, BeginDestroyEnds DEF Forest!ONext
  <2>3. CASE Take
    BY <2>3, TakeMoves DEF Forest!ONext
  <2>4. CASE UNCHANGED <<handle, frame>>
    BY <2>4, ForestQuiet
  <2>5. CASE EndDestroy \/ Clear
    BY <2>5, ReturnsAreQuiet
  <2>. QED
    BY <2>1, <2>2, <2>3, <2>4, <2>5
    DEF Next, vars, Destroy, Assign, SkipDestroy, EndLocal
<1>3. Called /\ Discipline /\ [Next]_vars => Called'
  BY CalledStep
<1>. QED
  BY <1>1, <1>2, <1>3, CalledInit, DisciplineInvariant, PTL
  DEF Spec, ImplementsOwners, Forest!OSpec

=============================================================================
