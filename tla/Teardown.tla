------------------------------ MODULE Teardown ------------------------------
(***************************************************************************)
(* Inside reset() of vix::Task.  Task models the end of a coroutine frame  *)
(* in one step; here destroy() takes the time it takes: it ends the locals *)
(* of the frame one by one, the Tasks and Awaiters among them with a       *)
(* reset() of their own, and the destructor of any other local is code of  *)
(* the program, which may use the Tasks of the program meanwhile.  reset() *)
(* clears handle_ and operator= reads its source only when destroy() has   *)
(* returned.  One thread: `stack' holds the calls in progress.             *)
(***************************************************************************)
EXTENDS Naturals, Sequences

CONSTANTS
  Frame,  \* coroutine frames; each is created at most once
  Var,    \* Task objects and Awaiters
  Home,   \* Home[v]: the frame v is in, or Main
  Main, None

ASSUME HomeAssumption == Home \in [Var -> Frame \cup {Main}]
ASSUME DistinctAssumption ==
  Main \notin Frame /\ None \notin Frame /\ None \notin Var

VARIABLES
  handle,  \* handle[v]: handle_
  frame,   \* frame[f]: "none", "suspended", "dying" in destroy(), or "gone"
  stack    \* the calls in progress, innermost last

vars == <<handle, frame, stack>>

\* The frames that destroying f destroys.
Subtree(f) ==
  {g \in Frame :
     /\ f # None
     /\ \A S \in SUBSET Frame :
          /\ f \in S
          /\ \A v \in Var : Home[v] \in S /\ handle[v] # None => handle[v] \in S
          => g \in S}

\* A call of ~Task() or operator= of v, at its first statement.  The rest is
\* history: the frames that hung from v at the call, what w owned then, and
\* whether the program used w since.
Operation(v, w) ==
  [self |-> v, from |-> w, next |-> "test", ends |-> Subtree(handle[v]),
   had |-> IF w = None THEN None ELSE handle[w], touched |-> FALSE]

Operations ==
  [self : Var, from : Var \cup {None}, next : {"test", "clear", "take"},
   ends : SUBSET Frame, had : Frame \cup {None}, touched : BOOLEAN]

\* destroy() of f, with the Tasks in the frame that have not ended.
Destruction(f) ==
  [frame |-> f, left |-> {v \in Var : Home[v] = f}, next |-> "unwind"]

Destructions == [frame : Frame, left : SUBSET Var, next : {"unwind"}]

TypeOK ==
  /\ handle \in [Var -> Frame \cup {None}]
  /\ frame \in [Frame -> {"none", "suspended", "dying", "gone"}]
  /\ stack \in Seq(Operations \cup Destructions)

Init ==
  /\ handle = [v \in Var |-> None]
  /\ frame = [f \in Frame |-> "none"]
  /\ stack = <<>>

-----------------------------------------------------------------------------
Top == stack[Len(stack)]
Pop == SubSeq(stack, 1, Len(stack) - 1)

\* The innermost call goes on at another statement.
Goto(next) == [stack EXCEPT ![Len(stack)].next = next]

At(next) == stack # <<>> /\ Top.next = next

\* operator= ends with the exchange, ~Task() before it.
Returned == IF Top.from = None THEN Pop ELSE Goto("take")

-----------------------------------------------------------------------------
(* What the program may do.                                                *)

InOperation(i) == stack[i].next # "unwind"

\* Tasks with a call of theirs in progress, and the sources of those calls.
Busy == {stack[i].self : i \in {j \in DOMAIN stack : InOperation(j)}}
Source == {stack[i].from : i \in {j \in DOMAIN stack : InOperation(j)}} \ {None}

\* Where a handle that v receives will go when the calls in progress return.
Landing(v) ==
  {u \in Var :
     \A S \in SUBSET Var :
       /\ v \in S
       /\ \A i \in DOMAIN stack :
            InOperation(i) /\ stack[i].from \in S => stack[i].self \in S
       => u \in S}

\* Bodies use every Task while nothing is being destroyed, a destructor those
\* of the program.  No Task is used from inside a call of its own.
Usable(v) ==
  /\ stack = <<>> \/ (At("unwind") /\ Home[v] = Main)
  /\ v \notin Busy
  /\ Home[v] # Main => frame[Home[v]] = "suspended"

\* What v owns may end: no Task that is in use is in there.
MayEnd(v, used) == \A u \in used : Home[u] \notin Subtree(handle[v])

\* The program used the Tasks in V: the assignments from them know.
Touched(V) ==
  [i \in DOMAIN stack |->
     IF InOperation(i) /\ stack[i].from \in V
     THEN [stack[i] EXCEPT !.touched = TRUE] ELSE stack[i]]

\* A coroutine is called: v owns its frame.
Create(v, f) ==
  /\ Usable(v) /\ handle[v] = None
  /\ frame[f] = "none"
  /\ handle' = [handle EXCEPT ![v] = f]
  /\ frame' = [frame EXCEPT ![f] = "suspended"]
  /\ stack' = Touched({v})

\* ~Task() of v, after which v stands for a new, empty Task.
Destroy(v) ==
  /\ Usable(v)
  /\ MayEnd(v, Busy \cup Source)
  /\ stack' = Append(Touched({v}), Operation(v, None))
  /\ UNCHANGED <<handle, frame>>

\* Mutant: operator= does not compare this with the other.
Always(v, w) == TRUE

\* this != &other
Different(v, w) == v # w

\* v = std::move(w)
Assign(v, w) ==
  /\ Usable(v) /\ Usable(w)
  /\ MayEnd(v, Busy \cup Source \cup {w})
  /\ \A u \in Landing(v) : Home[u] \notin Subtree(handle[w])
  /\ Different(v, w)
  /\ stack' = Append(Touched({v, w}), Operation(v, w))
  /\ UNCHANGED <<handle, frame>>

-----------------------------------------------------------------------------
(* reset(), destroy() and the exchange.                                    *)

\* Mutants: reset() destroys whatever it holds; it destroys nothing.
Unconditionally(v) == TRUE
Never(v) == FALSE

\* if (handle_)
Owning(v) == handle[v] # None

\* handle_.destroy() is called.
BeginDestroy ==
  LET f == handle[Top.self] IN
  /\ At("test") /\ Owning(Top.self)
  /\ frame' = [frame EXCEPT ![f] = "dying"]
  /\ stack' = Append(Goto("clear"), Destruction(f))
  /\ UNCHANGED handle

\* There is nothing to destroy.
SkipDestroy ==
  /\ At("test") /\ ~Owning(Top.self)
  /\ stack' = Returned
  /\ UNCHANGED <<handle, frame>>

\* The destructor of a Task or Awaiter of the frame.
EndLocal(v) ==
  /\ At("unwind") /\ v \in Top.left
  /\ stack' = Append([stack EXCEPT ![Len(stack)].left = @ \ {v}],
                     Operation(v, None))
  /\ UNCHANGED <<handle, frame>>

\* destroy() returns.
EndDestroy ==
  /\ At("unwind") /\ Top.left = {}
  /\ frame' = [frame EXCEPT ![Top.frame] = "gone"]
  /\ stack' = Pop
  /\ UNCHANGED handle

\* handle_ = {}
Clear ==
  /\ At("clear")
  /\ handle' = [handle EXCEPT ![Top.self] = None]
  /\ stack' = Returned
  /\ UNCHANGED frame

\* Mutants: the source was read before reset(); it keeps its handle.
ReadEarly(call) == [handle EXCEPT ![call.self] = call.had, ![call.from] = None]
NotExchanged(call) == [handle EXCEPT ![call.self] = handle[call.from]]

\* handle_ = std::exchange(other.handle_, {})
Exchanged(call) ==
  [handle EXCEPT ![call.from] = None, ![call.self] = handle[call.from]]

Take ==
  /\ At("take")
  /\ handle' = Exchanged(Top)
  /\ stack' = Pop
  /\ UNCHANGED frame

Next ==
  \/ \E v \in Var, f \in Frame : Create(v, f)
  \/ \E v \in Var : Destroy(v)
  \/ \E v, w \in Var : Assign(v, w)
  \/ BeginDestroy \/ SkipDestroy
  \/ \E v \in Var : EndLocal(v)
  \/ EndDestroy
  \/ Clear
  \/ Take

Spec == Init /\ [][Next]_vars
-----------------------------------------------------------------------------
(* Properties.                                                             *)

\* A Task and a frame being destroyed are each in one call at most: whatever
\* destructors do, no destroy() starts on a frame that has begun to end.
OneCallEach ==
  \A i, j \in DOMAIN stack : i # j =>
    /\ InOperation(i) /\ InOperation(j) => stack[i].self # stack[j].self
    /\ ~InOperation(i) /\ ~InOperation(j) => stack[i].frame # stack[j].frame

\* A handle is the only one to its frame, and the frame is intact unless the
\* very Task is in reset(), between destroy() and handle_ = {}.
HandlesAreSound ==
  \A v \in Var : handle[v] # None =>
    /\ \A w \in Var : handle[w] = handle[v] => w = v
    /\ \/ frame[handle[v]] = "suspended"
       \/ \E i \in DOMAIN stack : /\ InOperation(i) /\ stack[i].next = "clear"
                                  /\ stack[i].self = v

\* No frame is forgotten: one that is intact belongs to a Task that is still
\* there, or in a frame whose destruction will reach it.
NothingForgotten ==
  \A f \in Frame : frame[f] = "suspended" =>
    \E v \in Var :
      /\ handle[v] = f
      /\ \/ Home[v] = Main \/ v \in Busy
         \/ frame[Home[v]] = "suspended"
         \/ \E i \in DOMAIN stack : /\ ~InOperation(i) /\ stack[i].frame = Home[v]
                                    /\ v \in stack[i].left

\* When reset() is over, every frame that hung from its Task at the call has
\* ended, whatever destructors did meanwhile: the end of a tree of frames is one
\* step to those who call it, as Task has it.
TreesEnd ==
  [][SkipDestroy \/ Clear => \A f \in Top.ends : frame[f] = "gone"]_vars

\* v = std::move(w) gives v what w owned when it was called, and w nothing,
\* unless a destructor it ran used w.
AssignTransfers ==
  [][At("take") /\ ~Top.touched =>
       handle'[Top.self] = Top.had /\ handle'[Top.from] = None]_vars

\* To those who see whole operations a frame has ended when the destroy() that
\* will reach it has begun.
Ending ==
  LET Reach == {S \in SUBSET Frame :
                  /\ \A f \in Frame : frame[f] = "dying" => f \in S
                  /\ \A v \in Var : Home[v] \in S /\ handle[v] # None
                                      => handle[v] \in S}
  IN  {g \in Frame : \A S \in Reach : g \in S}

Intact == {f \in Frame : frame[f] = "suspended"} \ Ending

Links ==
  {<<Home[v], handle[v]>> : v \in Var} \cap ((Frame \cup {Main}) \X Intact)

Forest == INSTANCE Owners WITH
  born <- {f \in Frame : frame[f] # "none"}, live <- Intact, holds <- Links

\* The calls of reset() in progress, destructors and what they do included, are
\* one step each: frames end tree by tree, as Task has it, and no frame moves
\* or ends but by an operation on the Task that owns it.
ImplementsOwners == Forest!OSpec
=============================================================================
