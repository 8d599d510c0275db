-------------------------------- MODULE Task --------------------------------
(***************************************************************************)
(* vix::Task<T> and vix::Task<void>: lazy, single-owner coroutines, with   *)
(* the awaiter of operator co_await and the promise of the coroutine.      *)
(*                                                                         *)
(* Task disclaims thread safety, so one thread runs everything: a main     *)
(* program (Main) that resumes coroutines, which resume or await others.   *)
(* `stack' holds the coroutines between the resume() that entered them and *)
(* the suspension that leaves them; main runs when it is empty.  A step of *)
(* the model is one call of the Task API by the code on top of the stack,  *)
(* or one event of a coroutine's body (throw, catch, return, suspension).  *)
(***************************************************************************)
EXTENDS Naturals, Sequences

CONSTANTS
  Coro,            \* coroutine frames; each identifier is created at most once
  VoidCoro,        \* those whose Task is a Task<void>
  Var,             \* Task objects, and places for Awaiters
  Temp,            \* the latter: Awaiters that outlive their await_resume()
  Home,            \* Home[v]: the frame v is a local of, or Main
  Leaf,            \* suspensions other than co_await Task that bodies use
  ResumeAwaiting,  \* may clients resume a Task suspended in a co_await?
  Main, None, LogicError

ASSUME CoroAssumption == VoidCoro \subseteq Coro
ASSUME TempAssumption == Temp \subseteq Var
ASSUME HomeAssumption == Home \in [Var -> Coro \cup {Main}]
ASSUME LeafAssumption == Leaf \subseteq {"yield", "event"}
ASSUME ResumeAssumption == ResumeAwaiting \in BOOLEAN
ASSUME DistinctAssumption ==
  /\ Main \notin Coro /\ None \notin Coro /\ LogicError \notin Coro
  /\ Main # None /\ Main # LogicError /\ None # LogicError

VARIABLES
  handle,        \* handle[v]: Task::handle_ (Awaiter::handle_), v's frame
  awaiter,       \* awaiter[p]: Awaiter::handle_ of p's current co_await
  state,         \* state[c]: where the body of c is
  continuation,  \* continuation[c]: promise.continuation_
  value,         \* value[c]: whether promise.value_ is engaged, or moved from
  exception,     \* exception[c]: promise.exception_
  inflight,      \* inflight[c]: exception propagating in the body of c
  stack,         \* coroutines being executed, innermost last
  obs            \* history: what observers of c's completion were given

vars == <<handle, awaiter, state, continuation, value, exception, inflight,
          stack, obs>>

\* An exception is identified by the coroutine whose body threw it.
Exception == Coro \cup {LogicError}

(* The states of a frame: not created; suspended at initial_suspend;       *)
(* executing; about to execute await_resume; suspended by std::suspend_    *)
(* always ("yield") or by an external awaitable that resumes it ("event"); *)
(* suspended in co_await of a Task; at final_suspend; destroyed.           *)
State == {"unborn", "start", "active", "resume", "yield", "event", "await",
          "final", "dead"}

\* What value_ may be: a disengaged optional, a value, a moved-from value.
Content == {"empty", "engaged", "moved"}

TypeOK ==
  /\ handle \in [Var -> Coro \cup {None}]
  /\ awaiter \in [Coro -> Coro \cup {None}]
  /\ state \in [Coro -> State]
  /\ continuation \in [Coro -> Coro \cup {None}]
  /\ value \in [Coro -> Content]
  /\ exception \in [Coro -> Exception \cup {None}]
  /\ inflight \in [Coro -> Exception \cup {None}]
  /\ stack \in Seq(Coro)
  /\ obs \in [Coro -> SUBSET (Exception \cup Content \cup {"void"})]

Init ==
  /\ handle = [v \in Var |-> None]
  /\ awaiter = [c \in Coro |-> None]
  /\ state = [c \in Coro |-> "unborn"]
  /\ continuation = [c \in Coro |-> None]
  /\ value = [c \in Coro |-> "empty"]
  /\ exception = [c \in Coro |-> None]
  /\ inflight = [c \in Coro |-> None]
  /\ stack = <<>>
  /\ obs = [c \in Coro |-> {}]

-----------------------------------------------------------------------------
(* Frames and ownership.                                                   *)

Alive(c) == state[c] \notin {"unborn", "dead"}

Running(c) == state[c] \in {"active", "resume"}

Done(c) == state[c] = "final"

\* The frame of x holds d: in the awaiter of its co_await or in a local Task.
Owns(x, d) == awaiter[x] = d \/ \E v \in Var : Home[v] = x /\ handle[v] = d

ClosedUnderOwns(S) == \A x \in S : \A d \in Coro : Owns(x, d) => d \in S

\* Destroying frame c destroys what it owns: the least closed set with c.
Subtree(c) ==
  {d \in Coro : /\ c # None
                /\ \A S \in SUBSET Coro :
                     c \in S /\ ClosedUnderOwns(S) => d \in S}

\* What the Tasks and Awaiters of V own.
HeldBy(V) == UNION {Subtree(handle[v]) : v \in V}

\* The frames the locals of p own, at the end of its body.
LocalsOf(p) == HeldBy({u \in Var : Home[u] = p})

\* The Awaiters of the full expression p evaluates whose await_resume() has
\* returned, as that of a in f(co_await a, co_await b) while b is awaited; and
\* what they and the Awaiter of the current co_await own.
Temporaries(p) == {u \in Temp : Home[u] = p}

AwaitersOf(p) == Subtree(awaiter[p]) \cup HeldBy(Temporaries(p))

\* Only suspended frames may be destroyed (a precondition of destroy()).
Idle(D) == \A c \in D : ~Running(c)

\* Mutant: the source of a move keeps its handle.
NotExchanged(h, v) == h

\* std::exchange(handle_, {}): the Task gives its frame away.
Exchanged(h, v) == [h EXCEPT ![v] = None]

\* The Tasks and Awaiters of V end.
Cleared(h, V) == [v \in Var |-> IF v \in V THEN None ELSE h[v]]

\* reset() and the frame's destructors, on each of the variables they touch.
Emptied(h, D) == [v \in Var |-> IF Home[v] \in D THEN None ELSE h[v]]
Released(f, D) == [c \in Coro |-> IF c \in D THEN None ELSE f[c]]

\* Mutant: reset() clears handle_ without calling destroy().
NotDestroyed(st, D) == st

Destroyed(st, D) == [c \in Coro |-> IF c \in D THEN "dead" ELSE st[c]]

-----------------------------------------------------------------------------
(* The resume stack.                                                       *)

Top == IF stack = <<>> THEN Main ELSE stack[Len(stack)]

Pop == SubSeq(stack, 1, Len(stack) - 1)

\* Mutant: resume() called inside await_suspend() instead of a transfer.
NestedResume(c) == Append(stack, c)

\* Symmetric transfer: the coroutine on top suspends and c runs in its place.
TransferTo(c) == Append(Pop, c)

\* Mutants: no noop_coroutine() without a continuation; no transfer at all.
NoNoop(q) == TransferTo(q)
NoTransfer(q) == Pop

\* FinalAwaiter: the continuation runs next, or control returns to resume().
Successor(q) == IF q = None THEN Pop ELSE TransferTo(q)

\* Who executes: main, or a body that is neither suspended nor unwinding.
CanAct ==
  Top # Main => state[Top] = "active" /\ inflight[Top] = None

\* The Task objects the executing code can name: globals and its own locals.
\* An Awaiter has no name.
Accessible(v) == CanAct /\ v \notin Temp /\ Home[v] \in {Main, Top}

\* A handle is resumed only when suspended before its end (a precondition of
\* resume()).  Resuming one suspended in co_await makes it run await_resume,
\* which destroys the Task it awaits.
Resumable(c) ==
  \/ state[c] \in {"start", "yield", "event"}
  \/ ResumeAwaiting /\ state[c] = "await" /\ Idle(Subtree(awaiter[c]))

\* Where the coroutine that is resumed goes on; at its end there is nothing left.
Entered(c) ==
  CASE state[c] = "await" -> "resume"
    [] state[c] = "final" -> "final"
    [] OTHER              -> "active"

\* An exception thrown by a Task operation into the code that called it; the
\* main program handles it at the call.
Raise(e) ==
  /\ inflight' = IF Top = Main THEN inflight ELSE [inflight EXCEPT ![Top] = e]
  /\ UNCHANGED <<handle, awaiter, state, continuation, value, exception,
                 stack, obs>>

\* Mutant: a value, once there, hides the exception.
ValueFirst(c) == IF value[c] = "empty" THEN exception[c] ELSE value[c]

\* What result() and await_resume() hand out: rethrow_if_exception() first,
\* then *value_; a Task<void> has no value to read.
ValueOutcome(c) == IF exception[c] # None THEN exception[c] ELSE value[c]

VoidOutcome(c) == IF exception[c] # None THEN exception[c] ELSE "void"

Outcome(c) == IF c \in VoidCoro THEN VoidOutcome(c) ELSE ValueOutcome(c)

\* The value of c is moved out of its promise.
MovedOut(c) == IF c \in VoidCoro THEN value ELSE [value EXCEPT ![c] = "moved"]

Observe(c) == obs' = [obs EXCEPT ![c] = @ \cup {Outcome(c)}]

-----------------------------------------------------------------------------
(* Operations on Task objects.                                             *)

\* Calling a coroutine function: get_return_object() gives v the new frame,
\* which initial_suspend() leaves suspended.
Create(v, c) ==
  /\ Accessible(v)
  /\ handle[v] = None
  /\ state[c] = "unborn"
  /\ handle' = [handle EXCEPT ![v] = c]
  /\ state' = [state EXCEPT ![c] = "start"]
  /\ UNCHANGED <<awaiter, continuation, value, exception, inflight, stack,
                 obs>>

\* v = std::move(w), and Task v(std::move(w)) when v is empty.  A Task is not
\* moved into a frame it owns.
MoveAssign(v, w) ==
  LET D == Subtree(handle[v]) IN
  /\ v # w
  /\ Accessible(v)
  /\ Accessible(w)
  /\ Home[v] \notin Subtree(handle[w])
  /\ Idle(D)
  /\ handle' = Emptied([Exchanged(handle, w) EXCEPT ![v] = handle[w]], D)
  /\ awaiter' = Released(awaiter, D)
  /\ continuation' = Released(continuation, D)
  /\ state' = Destroyed(state, D)
  /\ UNCHANGED <<value, exception, inflight, stack, obs>>

\* ~Task()
Destroy(v) ==
  LET D == Subtree(handle[v]) IN
  /\ Accessible(v)
  /\ Idle(D)
  /\ handle' = Emptied([handle EXCEPT ![v] = None], D)
  /\ awaiter' = Released(awaiter, D)
  /\ continuation' = Released(continuation, D)
  /\ state' = Destroyed(state, D)
  /\ UNCHANGED <<value, exception, inflight, stack, obs>>

\* done()
Completed(v) == handle[v] # None /\ Done(handle[v])

\* start()
StartEmpty(v) ==
  /\ Accessible(v)
  /\ handle[v] = None
  /\ Raise(LogicError)

StartDone(v) ==
  /\ Accessible(v)
  /\ Completed(v)
  /\ UNCHANGED vars

StartResume(v) ==
  /\ Accessible(v)
  /\ handle[v] # None /\ Resumable(handle[v])
  /\ state' = [state EXCEPT ![handle[v]] = Entered(handle[v])]
  /\ stack' = Append(stack, handle[v])
  /\ UNCHANGED <<handle, awaiter, continuation, value, exception, inflight,
                 obs>>

Start(v) == StartEmpty(v) \/ StartDone(v) \/ StartResume(v)

\* result(): ensure_completed(), then the outcome.
ResultUnavailable(v) ==
  /\ Accessible(v)
  /\ ~Completed(v)
  /\ Raise(LogicError)

ResultAvailable(v) ==
  LET c == handle[v] IN
  /\ Accessible(v)
  /\ Completed(v)
  /\ Observe(c)
  /\ inflight' = IF Top # Main /\ exception[c] # None
                 THEN [inflight EXCEPT ![Top] = exception[c]] ELSE inflight
  /\ UNCHANGED <<handle, awaiter, state, continuation, exception, stack>>

\* On an lvalue the value stays.  On an rvalue the caller is handed a T && and
\* moves the value out; the Task still owns the frame.
ResultKept(v) == ResultAvailable(v) /\ UNCHANGED value

ResultMoved(v) ==
  /\ ResultAvailable(v)
  /\ exception[handle[v]] = None
  /\ handle[v] \notin VoidCoro
  /\ value' = MovedOut(handle[v])

Result(v) == ResultUnavailable(v) \/ ResultKept(v) \/ ResultMoved(v)

-----------------------------------------------------------------------------
(* co_await std::move(v) in the body of p.                                 *)

\* Mutants: await_ready() never suspends; it does not look at done().
AlwaysReady(c) == TRUE
EmptyReady(c) == c = None

\* await_ready(): nothing to wait for.
AwaitReady(c) == IF c = None THEN TRUE ELSE Done(c)

\* operator co_await() && moves the handle into an Awaiter in p's frame.
ConsumeTask(p, v) ==
  /\ Accessible(v)
  /\ p = Top
  /\ p \notin Subtree(handle[v])
  /\ handle' = Exchanged(handle, v)
  /\ awaiter' = [awaiter EXCEPT ![p] = handle[v]]

\* await_ready() is true: no suspension.
AwaitImmediate(p, v) ==
  /\ AwaitReady(handle[v])
  /\ ConsumeTask(p, v)
  /\ state' = [state EXCEPT ![p] = "resume"]
  /\ UNCHANGED <<continuation, value, exception, inflight, stack, obs>>

\* Mutant: await_suspend() does not record who waits.
NotConnected(c, p) == continuation

\* promise().continuation_ = continuation
Connected(c, p) == [continuation EXCEPT ![c] = p]

\* await_suspend() records p and transfers execution to the awaited coroutine,
\* which clients do not await while it cannot be resumed, unless it has ended.
AwaitSuspend(p, v) ==
  LET c == handle[v] IN
  /\ ~AwaitReady(c)
  /\ c = None \/ Done(c) \/ Resumable(c)
  /\ ConsumeTask(p, v)
  /\ continuation' = Connected(c, p)
  /\ state' = [state EXCEPT ![p] = "await", ![c] = Entered(c)]
  /\ stack' = TransferTo(c)
  /\ UNCHANGED <<value, exception, inflight, obs>>

Await(p, v) == AwaitImmediate(p, v) \/ AwaitSuspend(p, v)

\* await_resume() on an Awaiter that holds nothing.
AwaitResumeEmpty(p) ==
  /\ p = Top /\ state[p] = "resume"
  /\ awaiter[p] = None
  /\ state' = [state EXCEPT ![p] = "active"]
  /\ inflight' = [inflight EXCEPT ![p] = LogicError]
  /\ UNCHANGED <<handle, awaiter, continuation, value, exception, stack, obs>>

\* What await_resume() throws into p: the exception of c, or that of moving the
\* value into what it returns.
ResumeThrows(p, c) ==
  IF exception[c] # None THEN {exception[c]}
  ELSE IF c \in VoidCoro THEN {None} ELSE {None, p}

\* The full expression p evaluates ends, and with it every Awaiter in it.
EndAwaiters(p) ==
  LET D == AwaitersOf(p) IN
  /\ handle' = Emptied(Cleared(handle, Temporaries(p)), D)
  /\ awaiter' = Released(awaiter, D \cup {p})
  /\ continuation' = Released(continuation, D)
  /\ state' = Destroyed([state EXCEPT ![p] = "active"], D)

\* The Awaiter stays in p's frame until the full expression ends.
KeepAwaiter(p, v) ==
  /\ handle[v] = None
  /\ handle' = [handle EXCEPT ![v] = awaiter[p]]
  /\ awaiter' = [awaiter EXCEPT ![p] = None]
  /\ state' = [state EXCEPT ![p] = "active"]
  /\ UNCHANGED continuation

\* await_resume() of the awaited c: rethrow or move the value out.  Then the
\* full expression ends, as it does when an exception leaves it, or goes on; not
\* if c has not completed, for c would resume p when p no longer awaits it.
AwaitResumeOwned(p) ==
  LET c == awaiter[p] IN
  /\ p = Top /\ state[p] = "resume"
  /\ c # None
  /\ Observe(c)
  /\ \E e \in ResumeThrows(p, c) :
       /\ inflight' = [inflight EXCEPT ![p] = e]
       /\ \/ EndAwaiters(p) /\ UNCHANGED value
          \/ /\ e = None /\ Done(c)
             /\ value' = MovedOut(c)
             /\ \E v \in Temporaries(p) : KeepAwaiter(p, v)
  /\ UNCHANGED <<exception, stack>>

AwaitResume(p) == AwaitResumeEmpty(p) \/ AwaitResumeOwned(p)

-----------------------------------------------------------------------------
(* Events of the body of p.                                                *)

Executing(p) == p = Top /\ state[p] = "active"

\* The end of the body: locals are destroyed, final_suspend() is reached, and
\* FinalAwaiter transfers to the continuation, if there is one.
FinalSuspend(p) ==
  LET D == LocalsOf(p)
      q == continuation[p] IN
  /\ Idle(D)
  /\ handle' = Emptied(handle, D \cup {p})
  /\ awaiter' = Released(awaiter, D)
  /\ continuation' = Released(continuation, D)
  /\ state' = [c \in Coro |-> IF c \in D THEN "dead"
                              ELSE IF c = p THEN "final"
                              ELSE IF c = q THEN "resume"
                              ELSE state[c]]
  /\ stack' = Successor(q)

\* co_return: return_value() engages value_, return_void() stores nothing.  The
\* destructor of a local may still throw (exception p), with value_ engaged.
ReturnValue(p) ==
  /\ p \notin VoidCoro
  /\ value' = [value EXCEPT ![p] = "engaged"]

ReturnVoid(p) ==
  /\ p \in VoidCoro
  /\ UNCHANGED value

Return(p) ==
  /\ Executing(p) /\ inflight[p] = None
  /\ ReturnValue(p) \/ ReturnVoid(p)
  /\ \E e \in {None, p} : exception' = [exception EXCEPT ![p] = e]
  /\ FinalSuspend(p)
  /\ UNCHANGED <<inflight, obs>>

\* An exception leaves the body: unhandled_exception() captures it.
Unhandled(p) ==
  /\ Executing(p) /\ inflight[p] # None
  /\ exception' = [exception EXCEPT ![p] = inflight[p]]
  /\ inflight' = [inflight EXCEPT ![p] = None]
  /\ FinalSuspend(p)
  /\ UNCHANGED <<value, obs>>

Throw(p) ==
  /\ Executing(p) /\ inflight[p] = None
  /\ inflight' = [inflight EXCEPT ![p] = p]
  /\ UNCHANGED <<handle, awaiter, state, continuation, value, exception,
                 stack, obs>>

\* The exception leaves the full expression before a handler runs.
Catch(p) ==
  /\ Executing(p) /\ inflight[p] # None
  /\ inflight' = [inflight EXCEPT ![p] = None]
  /\ EndAwaiters(p)
  /\ UNCHANGED <<value, exception, stack, obs>>

\* The end of a full expression that went on after a co_await.
EndExpression(p) ==
  /\ Executing(p) /\ inflight[p] = None
  /\ \E v \in Temporaries(p) : handle[v] # None
  /\ EndAwaiters(p)
  /\ UNCHANGED <<value, exception, inflight, stack, obs>>

\* co_await of an awaitable other than a Task.
Suspend(p) ==
  /\ Executing(p) /\ inflight[p] = None
  /\ \E k \in Leaf : state' = [state EXCEPT ![p] = k]
  /\ stack' = Pop
  /\ UNCHANGED <<handle, awaiter, continuation, value, exception, inflight,
                 obs>>

\* The external awaitable c is suspended on resumes it.
Wake(c) ==
  /\ CanAct
  /\ state[c] = "event"
  /\ state' = [state EXCEPT ![c] = "active"]
  /\ stack' = Append(stack, c)
  /\ UNCHANGED <<handle, awaiter, continuation, value, exception, inflight,
                 obs>>

-----------------------------------------------------------------------------
TaskStep(v) ==
  \/ \E c \in Coro : Create(v, c)
  \/ \E w \in Var : MoveAssign(v, w)
  \/ Destroy(v)
  \/ Start(v)
  \/ Result(v)
  \/ \E p \in Coro : Await(p, v)

BodyStep(p) ==
  \/ AwaitResume(p)
  \/ Return(p) \/ Unhandled(p)
  \/ Throw(p) \/ Catch(p)
  \/ EndExpression(p)
  \/ Suspend(p)
  \/ Wake(p)

Next == (\E v \in Var : TaskStep(v)) \/ (\E p \in Coro : BodyStep(p))

Spec == Init /\ [][Next]_vars

\* The environment of Task: a body that keeps getting the processor ends, or,
\* while its end would destroy an executing frame, suspends; an exception is
\* caught or leaves the body; an external awaitable resumes what waits on it.
\* await_resume() is not a choice.
Fairness ==
  \A p \in Coro :
    /\ SF_vars(Return(p) \/ Unhandled(p))
    /\ SF_vars(Suspend(p))
    /\ WF_vars(Catch(p) \/ Unhandled(p))
    /\ SF_vars(Wake(p))
    /\ WF_vars(AwaitResume(p))

FairSpec == Spec /\ Fairness
-----------------------------------------------------------------------------
(* Properties.                                                             *)

\* The stack and the states of the frames agree: a frame executes at most
\* once, exactly the executing ones are not suspended, and only the innermost
\* is about to run await_resume() (Task.hpp, resume() and symmetric transfer).
StackSound ==
  /\ \A i, j \in DOMAIN stack : stack[i] = stack[j] => i = j
  /\ \A c \in Coro : Running(c) <=> \E i \in DOMAIN stack : stack[i] = c
  /\ \A c \in Coro : state[c] = "resume" => c = Top

\* Every frame that exists has exactly one owner, a Task or the Awaiter of a
\* co_await, and nothing refers to a frame that does not exist.
UniqueOwner ==
  /\ \A v, w \in Var : handle[v] = handle[w] => v = w \/ handle[v] = None
  /\ \A p, q \in Coro : awaiter[p] = awaiter[q] => p = q \/ awaiter[p] = None
  /\ \A v \in Var, p \in Coro : handle[v] = awaiter[p] => handle[v] = None
  /\ \A c \in Coro : Alive(c) <=> \/ \E v \in Var : handle[v] = c
                                  \/ \E p \in Coro : awaiter[p] = c

\* A coroutine suspended in co_await holds a Task that has not completed and
\* will resume it.  A promise, whose continuation_ is never cleared, outlives
\* neither the coroutine it names nor, unless its own has completed, the
\* co_await that connected them: only a completed Task of the same full
\* expression keeps the handle of a coroutine that no longer awaits it.
ContinuationSound ==
  /\ \A p \in Coro : state[p] = "await" =>
       /\ awaiter[p] # None
       /\ Alive(awaiter[p]) /\ ~Done(awaiter[p])
       /\ continuation[awaiter[p]] = p
  /\ \A c \in Coro : continuation[c] # None =>
       /\ Alive(c) /\ Alive(continuation[c])
       /\ \/ awaiter[continuation[c]] = c
          \/ Done(c) /\ \E v \in Temporaries(continuation[c]) : handle[v] = c
  /\ \A p \in Coro : awaiter[p] # None => state[p] \in {"await", "resume"}
  /\ \A v \in Temp : handle[v] # None => Done(handle[v])

\* No leak: every frame that exists hangs, through awaiters and locals, from a
\* Task of the main program, so destroying those Tasks frees everything.
NoLeak ==
  \A S \in SUBSET Coro :
    (\A v \in Var : Home[v] = Main /\ handle[v] # None => handle[v] \in S)
      /\ ClosedUnderOwns(S)
    => \A c \in Coro : Alive(c) => c \in S

\* While p stays suspended in one co_await the frame it awaits stays alive
\* and its own ("until the await operation finishes or the awaiting coroutine
\* itself is destroyed").
AwaitedStaysAlive ==
  [][\A p \in Coro : state[p] = "await" /\ state'[p] = "await" =>
       /\ awaiter'[p] = awaiter[p]
       /\ state'[awaiter[p]] # "dead"]_vars

\* What p waits for, through the Tasks that others await, and p itself.
Chain(p) ==
  {c \in Coro : \A S \in SUBSET Coro :
     p \in S /\ (\A x \in S : state[x] = "await" => awaiter[x] \in S) => c \in S}

\* No co_await waits for nothing or for itself: what it waits for comes to a
\* coroutine that executes, or that something else than a Task will resume
\* (await_suspend() starts what it waits for, final_suspend() resumes who waits).
AwaitChainsEnd ==
  \A p \in Coro : state[p] = "await" =>
    \E c \in Chain(p) : state[c] \in {"active", "resume", "yield", "event"}

\* await_resume() runs only when the awaited Task has completed.
AwaitAfterCompletion ==
  \A p \in Coro : state[p] = "resume" /\ awaiter[p] # None => Done(awaiter[p])

\* Observers of a completed Task are told the truth: the exception that left
\* its body if there is one, else its value, and never an empty value_.  A
\* moved-from value reaches only those who come after one that was given the
\* value itself, by an rvalue result().
ObservationsFaithful ==
  \A c \in Coro : obs[c] # {} =>
    IF exception[c] # None THEN obs[c] = {exception[c]}
    ELSE IF c \in VoidCoro THEN obs[c] = {"void"}
    ELSE \/ obs[c] = {"engaged"}
         \/ obs[c] = {"engaged", "moved"} /\ value[c] = "moved"

\* A coroutine that awaits a Task goes on, or is destroyed: the chain of
\* continuations loses no wakeup.
AwaitReturns ==
  \A p \in Coro : state[p] = "await" ~> state[p] \notin {"await", "resume"}

\* Task implements the deferred computations of Deferred.
Phase(c) ==
  CASE state[c] = "unborn" -> "none"
    [] state[c] = "final"  -> "settled"
    [] state[c] = "dead"   -> "dropped"
    [] OTHER               -> "pending"

Promise == INSTANCE Deferred WITH
  Computation <- Coro,
  Fate <- Exception \cup {"engaged", "void"},
  Takeable <- {"engaged"}, Taken <- "moved",
  Unsettled <- "empty",
  phase <- [c \in Coro |-> Phase(c)],
  outcome <- [c \in Coro |-> IF Done(c) THEN Outcome(c) ELSE "empty"],
  seen <- obs

ImplementsDeferred == Promise!DSpec

\* Task implements the forest of Owners.
Links ==
  {e \in (Coro \cup {Main}) \X Coro :
     \/ \E v \in Var : e = <<Home[v], handle[v]>>
     \/ \E p \in Coro : e = <<p, awaiter[p]>>}

Forest == INSTANCE Owners WITH
  Frame <- Coro,
  born <- {c \in Coro : state[c] # "unborn"},
  live <- {c \in Coro : Alive(c)},
  holds <- Links

\* The frames are a forest under the main program at every step, co_await and
\* the ends of bodies included: a frame begins in the place that calls it, moves
\* only to a place that does not hang from it, and ends with all that does and
\* never alone.
ImplementsOwners == Forest!OSpec
=============================================================================
