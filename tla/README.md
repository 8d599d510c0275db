# A TLA+ model of Vix.cpp Standard

This directory holds a specification of the parts of Vix.cpp Standard whose
behaviour over time is not obvious from one call: the coroutine type `Task`, the
sum type `Result` under throwing payloads, timeouts and schedules made of
`Duration` and `Instant`, the transfer of bytes between an `Input` and an
`Output` by callers that loop over short reads and writes, and `service-check`,
the program that composes the rest. TLC checks the modules on small instances,
TLAPS proves the safety properties for every instance.

## The system

The library is header-only apart from five stub sources. Its parts:

| Part | State | Operations | Hard behaviour | What makes it correct |
|---|---|---|---|---|
| `Task<T>`, `Task<void>` (`Task.hpp`) | a coroutine handle per Task and per awaiter; value, exception and continuation per promise; where each coroutine is suspended | creation, move, destruction, `start`, `done`, `result`, `co_await`, `co_return`, `unhandled_exception`, `final_suspend` | nested resumes, symmetric transfer, ownership that moves into awaiters, destruction of trees of suspended frames, exceptions, external awaitables | one owner per frame, no leak, no dangling continuation, no lost wake-up, observers told the truth |
| `Result<T,E>`, `Result<void,E>` (`Result.hpp`) | a `std::variant` | `success`, `failure`, copies, moves, `value`, `error`, `value_or`, `map`, `and_then` | payload operations that throw half-way | always a value or an error; failures change nothing else |
| `Duration` (`Duration.hpp`) | 64-bit nanoseconds | conversions, arithmetic, ratio and remainder, comparison | overflow, truncation | conversions of accepted values are exact; a schedule computed from ratio and remainder loses no run and gathers no drift |
| `Instant` (`Instant.hpp`) | steady-clock time point | `now`, `since`, `until`, `elapsed`, `is_past`, `is_future`, `+`, `-` | answers that are stale when used | answers stay true as the clock advances; the ways to ask for expiry agree |
| `parse` (`Parse.hpp`), `serialize` (`Serialize.hpp`) | none | text to value and back | order of the checks, range against tail, buffer bound | first fault reported; round trip |
| `ServiceConfig` (`validation/library`) | host, port, timeout | `create` | bounds of later conversions | accepts exactly what it can represent |
| `service-check` (`validation/cli`) | none | `main`, `Command::run` | order of failures | prints back what was asked |
| `Input`, `Output`, `read`, `write`, `print` (`Input.hpp`, `Output.hpp`, `Read.hpp`, `Write.hpp`, `Print.hpp`) | none in the library; position, contents and failure in the devices | concepts, forward one call | short transfers and failures between the calls of the callers' loops, clients that share an Output | nothing lost, repeated or reordered; an end without an error is complete; loops end unless the Output is full |
| the service of `examples/service.cpp` | an interval | `run` | an interval that overflowed or is not positive; late wake-ups | every run counted once |
| `run`, `validate`, `log` | none | forward one call | none | |

They interact by calls: `service-check` calls `run` on its `Command`, which calls
`ServiceConfig::create`, which calls `parse`, returns a `Result`, builds a
`Duration`; the command serializes it back. A `Task` interacts with other
coroutines through handles: `start` and external awaitables resume a frame,
`co_await` transfers to the awaited frame, and `final_suspend` transfers back;
`reset()` ends a frame and with it, through destructors, the Tasks it holds.
Clients of an `Output` interact through it: between two short writes of one the
others write.

## Modules

| Module | Models | Depends on |
|---|---|---|
| `Task` | `Task.hpp` with coroutine bodies, clients and external awaitables as environment | `Deferred`, `Owners` |
| `Deferred` | what `Task` promises: a computation created once, settled at most once, observed only then, its value handed over at most once | |
| `Teardown` | `reset()` and the move assignment of `Task` and of its awaiter, statement by statement, with the destructors they run | `Owners` |
| `Owners` | what owning frames through Tasks comes to for those who see whole operations: a forest in which a frame has one owner, changes it only to a place that does not hang from it, and ends with all that does | |
| `TeardownProofs` | proofs about `Teardown` | `Teardown` |
| `TaskProofs`, `TaskPromiseProofs` | proofs about `Task`: ownership, chains of awaits and the refinement of `Owners`; execution, observers and the refinement of `Deferred` | `Task`, `Deferred`, `Owners` |
| `Result` | `Result.hpp` over `std::variant` | `Outcome` |
| `Outcome` | what `Result` promises: sum values that are made, handed on and dropped, and what a failure may spoil | |
| `ResultProofs` | proofs about `Result` | `Result` |
| `Duration` | arithmetic and conversions, as operators | |
| `Instant` | a timeout: start, duration, deadline, and questions about them | `Duration` |
| `InstantProofs` | proofs about `Instant` | `Instant` |
| `Interval` | a service and the schedule of its interval | `Duration` |
| `IntervalProofs` | proofs about `Interval` | `Interval` |
| `Transfer` | `read`, `write` and `print`, the devices of the tests and of the benchmark, and the loops of their callers | `Streams` |
| `Streams` | what clients that share an Output are promised: each is a stream that arrives piece by piece, and ends when it is complete or a device failed | |
| `TransferProofs` | proofs about `Transfer` | `Transfer` |
| `Text` | integer `parse` and `serialize`, as operators | `Duration` |
| `ServiceCheck` | `main`, `Command::run`, `ServiceConfig::create` | `Text` |
| `ServiceCheckProofs` | proofs about `ServiceCheck` | `ServiceCheck` |
| `MC*` | values of the constants for TLC | |

Operators whose comment begins with *Mutant* are wrong versions of the operator
that follows them. Nothing uses them; substituting one for its neighbour must
make TLC find a violation, which shows that the properties depend on the code.

### Task

`handle[v]` is `Task::handle_`, `awaiter[p]` the `handle_` of the Awaiter whose
`co_await` the coroutine `p` is in; `continuation`, `value` and `exception` are the promise's fields.
`value[c]` is empty, engaged or moved from: `result() &&` and `await_resume()`
hand the value out by moving it, and `result() &&` leaves the Task its owner.
`state[c]` says where the body of `c` is, `inflight[c]` which exception it is
propagating, `stack` the coroutines between the `resume()` that entered them and
the suspension that leaves them. `obs` is a history of what `result()` and
`await_resume()` handed out.

An action is one Task operation by the code on top of the stack, or one event of
a body. `co_await` is two actions with the awaited coroutine's execution between
them: `Await` (`operator co_await`, `await_ready`, `await_suspend`) and
`AwaitResume`. The Awaiter, and with it the completed frame, lives to the end of
the full expression: in `f(co_await a, co_await b)` that of `a` outlives
`await_resume()` and is there while `b` is awaited, its promise still holding the
handle of the coroutine. So after `await_resume()` either the expression ends and
`~Awaiter` runs (`EndAwaiters`), or it goes on and the Awaiter stays in one of
the places `Temp` of the frame (`KeepAwaiter`) until `EndExpression`, until an
exception leaves the expression (`Catch`), or until the frame ends. The end of a
body is one action (`FinalSuspend`): locals die, then `final_suspend` transfers. A body may do
anything between those events; a Task that is a local of a body (`Home`) dies
with it, and destroying a frame destroys the tree of what it owns (`Subtree`, a
least closed set, so that no recursion is needed).

The preconditions of the C++ coroutine handle are the clients' obligation and
appear as guards: only a suspended frame is resumed (`Resumable`) or destroyed
(`Idle`), a Task is not moved into or awaited in a frame it owns (the code does not
test it, and such a frame would own itself and leak), and an external awaitable no
longer resumes a frame that was destroyed or resumed by somebody else. One
thread runs everything, since `Task` "does not provide" thread affinity or
scheduling. `ResumeAwaiting` chooses between clients that may `start()` a Task
suspended in a `co_await` (the documentation of `start()` allows it) and clients
that do not. A coroutine that was so resumed before what it awaits had completed
does not go on in the same full expression: what it awaited would resume it when
it waits for something else. Moving the value out of an awaited Task may throw, as may the
destructor of a local after `co_return`.

### Teardown

`Task` ends a tree of frames in one step. `Teardown` looks inside that step:
`stack` holds the calls of `~Task()`, `operator=` and `destroy()` in progress,
`next` the statement each is at. `destroy()` ends the Tasks and awaiters of the
frame one by one, each through a `reset()` of its own, and in between the
destructors of other locals are code of the program that creates, destroys and
assigns the Tasks of the program. `reset()` clears `handle_` only when
`destroy()` has returned, and `operator=` reads its source only then. `Task` and
`Teardown` are two views of one thing, and `Owners` says of what: a forest of
frames under the main program, where a step gives a frame to another place or
ends it with everything below it. `Task` implements `Owners` with all its
handles; `Teardown` implements it with those of the frames that no `destroy()`
in progress will reach (`Intact`). The single step in which `Task` ends a tree
is thus what the statements of `Teardown` amount to, whatever destructors do.

Two things are the clients' obligation, since nothing in the code tests them: a
Task is not used from inside a call of its own (`Usable`), and no call ends a
Task that a call in progress is using (`MayEnd`). The second excludes
`head = std::move(inner)` with `inner` in the coroutine of `head`, which reads
a Task that `reset()` has just ended. A destructor uses the Tasks of the program
and not those of other coroutines.

### Result

`throwing` fixes, per behaviour, which special members of which payload may
throw; `slot[o]` is `storage_`: a value, an error, valueless, or no object. The
assignments follow `std::variant`: equal alternatives are assigned; otherwise a
copy is built in place if that is safe and through a temporary if not, and a move
is built in place. `Result<void, E>` is the case of a single value whose members
never throw. A payload that is assigned to itself by move may be left
unspecified. Payloads that alias one another are left out. `Outcome` is the
contract behind all this: a payload in a Result was made with it or came from
another Result, whole and with its alternative, and a failure spoils at most one
payload unless payloads may throw while they are moved.

### Duration, Instant

The width of the representation and the number of its units in a millisecond are
constants, so one conversion stands for all of them. Signed overflow is undefined
and the build does not ask for wrapping, so an operation that leaves the range
may give any result. `Instant` is the pattern the type exists for, a deadline
computed from `now()` and moved or scaled later; `exact` is a history variable
that says whether the operations on the current timeout stayed in range. The
clock may advance between any two operations and never goes back.

`Interval` is the service of `examples/service.cpp`, which refuses to run with
an interval that is not positive, and the schedule such a service keeps: it waits
until `is_future()` of its next run is false, counts the runs that are due with
`elapsed() / interval` and goes to sleep until `now()` plus
`interval + -(elapsed() % interval)`. Each of the three calls reads the clock
anew, so a wake-up is three steps, `Look`, `Plan` and `Reschedule`, and the clock
may go on between any two. The next run is therefore late by what passed between
`elapsed()` and `now()` (`lag`), and `OnSchedule` says that it is late by no more:
the drift of a wake-up does not add to that of the one before. The
repository's example prints its interval and ends; the schedule is a client of
the operators, chosen because it needs all of them to agree, and is marked
external in the map. The program may scale and divide the interval before
the service is built.

### Transfer

`device` is the kind of Output: one that consumes everything (the `MemoryOutput`
of the tests), one byte (a short write at its shortest), or what its array still
holds (the `MemoryOutput` of the benchmark). A copier reads an `Input` into its
buffer and writes the buffer, a printer writes a text; both go on with what was
not consumed, as `Read.hpp` and `Write.hpp` ask of their callers. A step is one
call, so that clients of one Output interleave call by call, and every device may
be made to fail between two calls. Bytes are identified by their client and
their place, which is all that losing, repeating and reordering can be told by.

### Text, ServiceCheck

A text is what `from_chars` finds in it: nothing, no number, or a number that
something may follow. `ServiceCheck` has one step per call, in the order of the
code; the reference definitions of its properties (`Valid`, `Fault`) do not use
the bounds that the code computes.

## Runs

| Run | Instance | Shows |
|---|---|---|
| `task_ownership` | 3 coroutines (one `Task<void>`), 2 global Tasks, a local of each of two coroutines, a place for an Awaiter that outlives its `co_await`, both kinds of foreign suspension, clients that resume awaiting Tasks | `TypeOK`, `StackSound`, `UniqueOwner`, `ContinuationSound`, `NoLeak`, `AwaitChainsEnd`, `AwaitedStaysAlive`, and that `Task` implements `Owners` |
| `task_promise` | 3 coroutines, 1 global, the two locals and the Awaiter, suspensions that are woken, clients that leave awaiting Tasks alone, under fairness | `AwaitAfterCompletion`, `ObservationsFaithful`, `AwaitReturns`, and that `Task` implements `Deferred` |
| `task_resumed_early` | as `task_ownership` | a violation of `AwaitAfterCompletion`, below |
| `task_teardown` | 4 frames, a Task in each of 3, 3 Tasks of the program | `OneCallEach`, `HandlesAreSound`, `NothingForgotten`, `TreesEnd`, `AssignTransfers`, and that `Teardown` implements `Owners` |
| `result_payloads` | 2 objects, 2 values, 2 errors, all 256 choices of throwing members | `EitherValueOrError`, `FailureKeepsAlternatives`, `ValuelessHasCause`, and that `Result` implements `Outcome` |
| `result_has_error`, `result_noexcept` | the same | two violations, below |
| `instant_timeouts` | representation -8..7, 2 units per millisecond | `ExpiryAgrees`, `AnswersStayTrue`, `NapEndsInTime` |
| `interval_schedule` | the same; intervals that are negative, zero, positive and too long, factors 2 and 3 | `OnSchedule`, `WakeFindsWork` |
| `transfer_delivers` | 2 copiers with 3 and 2 bytes and buffers smaller and larger than that, a printer, an Output of each kind that holds 5 of the 7 bytes | `NothingLost`, `InOrder`, `CompleteWhenDone`, `CallsCount`, that `Transfer` implements `Streams`, and `LoopsEndUnlessFull` under fairness |
| `service_check` | representation -8..7, ports 1..3, timeouts 1..3, texts on both sides of every bound | `AcceptsExactlyValid`, `PrintsWhatWasAsked`, `ReportsFirstFault` |

Why these bounds are enough. With three coroutines and a local in two of them
ownership nests three deep, a chain of awaits has a middle, one coroutine can
destroy another's tree while a third runs, two Tasks can compete for one
frame, and a coroutine can await the second of two Tasks while it holds the
Awaiter of the first; each identifier is born once, so the state space is finite without a
bound on steps. In `task_teardown` a destructor inside a destructor inside an
assignment can use the assignment's source; the three Tasks of the program are
interchangeable, so TLC identifies states that differ by a permutation of them
(no temporal property of that run distinguishes them: all three belong to main). Two Results make every
binary operation and every chain of them; their alternatives and payloads are
all that the code distinguishes. A four-bit representation has both signs,
values that overflow under one addition, one doubling and one conversion, and
odd values for the truncation. The sources of `transfer_delivers` need several
reads and several writes each, with a last read and a last write that are short,
and the bounded Output fills before all is delivered. Texts are constant within
the classes between neighbouring bounds.

`CHECK_DEADLOCK FALSE` appears where the modelled thing does stop: a terminated
program (`result_*`), a finished one (`service_check`, `transfer_delivers`), and a clock
at the end of its representation (`interval_schedule`).

### Fairness

`FairSpec` assumes nothing about `Task`: `await_resume` is weakly fair because it
is not a choice. It assumes of bodies that one which keeps getting the processor
ends, or suspends while its end would destroy a running frame, and that an
exception is caught or leaves the body; of external awaitables, that they
eventually resume what waits on them. These are what the class leaves to
"the awaitable that caused the suspension". Nobody resumes a coroutine suspended
by `std::suspend_always`, so `task_promise` leaves that kind out: with it the
property fails, as the documentation of `start()` says it does.

`Transfer` assumes of each client that it goes on with its loop while its next
call can be made, which is what the loop in `Write.hpp` is told to do. Nothing
is assumed of the devices: they may fail at any time or never, and a full Output
stays full.

### Disagreements between the code and what it says

1. `task_resumed_early`: a Task suspended in `co_await` of another can be
   `start()`ed again, which the comment of `start()` offers as a way to make
   progress; its body then runs `await_resume()` of a Task that has not
   completed and reads an empty `std::optional`. `await_resume` says it returns
   the value "produced by the completed Task".
2. `result_has_error`: `has_error()` is true of a Result that lost its
   alternative in a failed assignment, and `error()` throws on it.
3. `result_noexcept`: the `noexcept` of the move assignment tests only move
   assignment, while a change of alternative move-constructs; a throwing move
   constructor then ends the program.

`SerializationFailed` is unreachable for integers, as
`validation/VALIDATION.md` suspects: `ReportsFirstFault` holds with no such
error.

## Proofs

TLAPS checks, for every value of the constants:

* `TaskProofs`: `TypeCorrect`, `FramesHaveOneOwner`, `NothingLeaks`,
  `ContinuationsAreSound`, whatever the clients do (`ResumeAwaiting` or not).
  The invariants are not inductive one by one: that a move or a destruction
  keeps one owner per frame needs that the subtree it detaches is a tree hanging
  from that owner (`NoLeak` and `UniqueOwner` together), and that no
  continuation is left behind in what survives needs `ContinuationSound`. Their
  conjunction with the types, `Ownership`, is inductive. What `ContinuationSound` adds
  is that a continuation is left behind only by a frame that completed and that
  an Awaiter of the same full expression still owns; by `UniqueOwner` that Awaiter
  and the coroutine it names end together. The argument is about
  one notion: cutting a frame off its owner detaches exactly its subtree
  (`DetachExact`), and what is left is still rooted (`DetachRooted`).
  The same notion proves `TaskImplementsOwners`: `Subtree` is what `Owners` calls
  `Below` (`BelowIsSubtree`), so `operator=` is a `Replace`, `~Task()` an `End`,
  the end of a body or of a full expression a `Release`, and `co_await` a `Move` into a place that does
  not hang from the awaited frame, or nobody would own both. `AwaitsAreServed`
  is the absence of deadlock among Tasks. It needs `Served`, that what is
  awaited has been started and that only finitely many frames exist at any
  time: a chain of awaits that never came to an executing or foreign-suspended
  coroutine would be a finite set of frames that own one another
  (`NoAwaitCycle`), which `NoLeak` excludes.
* `TaskPromiseProofs`: on top of `Ownership`, `ExecutionIsSound` and
  `AwaitedFramesStay` from `Execution` (the stack agrees with the states, only
  suspended frames are destroyed and only executing ones act). For clients that
  leave awaiting Tasks alone (`~ResumeAwaiting`), `AwaitedHasCompleted` and
  `ObserversAreTold` from `Knowledge` (what was observed is what the promise of a
  completed frame holds, and a completed promise changes only by being moved
  from), and `TaskImplementsDeferred`: the initial states of `Task` are initial
  states of `Deferred` and every step is a step of `Deferred` or a stutter.
* `TeardownProofs`: `TypeCorrect`, `CallsAreSingle`, `HandlesStaySound`,
  `NothingIsForgotten`, `WholeTreesEnd`, `AssignmentsTransfer` and
  `TeardownImplementsOwners`, from `Discipline`,
  for any number of frames and Tasks and any depth of destructors. None of the
  invariants is inductive alone. That `destroy()` starts on no frame twice needs that
  the destructions in progress will never reach the Task of the outermost call
  (`RootSpared`), which survives a destructor that gives a Task of the program
  another tree only if no frame ever hangs from a Task inside it, not even from
  one its handle will move to when the calls return (`Acyclic`, over `Lands`). That
  trees end needs what each call in progress has still to do (`EndsPending`),
  and that nothing is forgotten who will end the Tasks of a dying frame (`Held`).
  The lemmas about `Tree` and `Lands`, least closed sets both, say how each step
  changes them; then there is one lemma per action. For the refinement, a
  statement that changes what a `destroy()` in progress will reach is a stutter
  of `Owners`, and one that begins a `destroy()` on a frame that no other will
  reach is the `End` of its tree; that dying frames belong to calls (`Called`)
  is the one more invariant this takes.
* `ResultProofs`: `TypeCorrect`, `AlwaysValueOrError`,
  `FailuresKeepAlternatives`, from `Whole` (types and `EitherValueOrError`): an
  assignment can only empty its target when the source's alternative has a
  throwing move, and the source has an alternative because `Whole` held before.
  `ValuelessResultsHaveCause` holds of each Result by itself: it went empty
  because its assignment from the other alternative failed and a move may throw,
  or because it took over an empty one (`Caused`, one lemma per operation); what
  `map()`, `and_then()`, `success()` and `failure()` build always has an
  alternative (`PutFull`, `ComposeFull`). `ResultImplementsOutcome`: every step is one of
  `Outcome` or a stutter, with `slot` as it is and `NothrowMoves` as the
  guarantee that nothing is lost. Two theorems say what the disagreements about
  `has_error()` and `noexcept` need: `HasErrorIsRight` holds with payloads whose
  moves do not throw, `NoexceptIsRight` with payloads that throw when they are
  moved only if they throw when they are move-assigned.
* `InstantProofs`: `TypeCorrect`, `ExpiriesAgree`, `AnswersStayTrueAlways`,
  `NapsEndInTime`, from `Sound`: while nothing overflowed the deadline is the
  start plus the timeout, and truncation never rounds a positive time up.
* `IntervalProofs`: `TypeCorrect`, `KeepsSchedule`, `NoIdleWake`, from their own
  `Sound`: the clock never falls behind a reading of it (`Readings`), only positive
  intervals run (`Positive`), what `is_future()` answered stays true (`Due`), and
  the wait leads from what `elapsed()` read to the next multiple of the interval
  (`Planned`); the rest is integer division. For operands of any sign
  `DivisionSplits` says that the ratio and the remainder make up the dividend
  and where the remainder lies, `OneDivisionOverflows` that the smallest
  Duration by minus one nanosecond is the only division that leaves the
  representation, `MillisecondsComeBack` that the conversions are inverse where
  nothing overflows and that truncation drops less than a millisecond.
* `TransferProofs`: `TypeCorrect`, `NothingIsLost`, `OrderIsKept`,
  `DoneIsComplete`, `EveryCallCounts`, `TransferImplementsStreams`, from `Flow`: what a client has delivered is a prefix of its
  source and what it still holds is the segment up to the position of its Input.
  `DoneIsComplete` and the refinement assume that no copier supplies an empty
  buffer: to one that does, the zero `read()` answers looks like the end of the
  source. `EveryCallCounts` needs besides that a copier that writes has bytes
  (`CopiersHaveBytes`); the measure is `Effort`, two calls for a byte that is
  not read and one for a byte that is. It is what can be proved of
  `LoopsEndUnlessFull`: with fairness the measure comes to its end.
* `ServiceCheckProofs`: `ExactlyTheValid`, `PrintedAsAsked`,
  `FirstFaultReported`, from `Checked`: what each check established, step by step,
  and that the bound on the timeout is exactly that of its conversion. They
  assume that the buffer of `serialize()` holds the longest number (20 of 128
  bytes), without which the serialization error is reachable.

They use the assumptions on the constants and nothing else: `VoidCoro` is a set of
coroutines, `Home` maps Tasks to frames or to main, the distinguished values are
distinct, representations, factors and units are positive, the clients of an
Output are disjoint and their sizes numbers, arguments are texts.

Every invariant and every action property that a passing run checks is stated by
one of these theorems, and so is each of the five refinements. Only
model-checked: `AwaitReturns` and `LoopsEndUnlessFull`, liveness under fairness
and out of the prover's reach, of which `AwaitsAreServed` and `EveryCallCounts`
are the parts that need no fairness; and the three disagreements, which are
counterexamples.

## Not modelled

`log` and `validate` forward one call to code of their caller and have neither
state nor control; `parse` and `serialize` of floating point have the control of
the integer case around another external conversion, those of `bool` and of
strings are a comparison and a copy. The units of `Duration` other than
milliseconds are the same operators with another factor. Left out besides:
allocation failure of a coroutine frame; threads, which the types exclude;
payloads of a `Result` that alias; the examples
`library.cpp` and `cli.cpp`, the tests, the benchmarks apart from their Output,
and the build files.

## Plan

The modules above are the plan as carried out, and so are the proofs of what the
runs check. What would come next, in this order: the precise converse of
`AwaitAfterCompletion`, that only the resume of a coroutine suspended in
`co_await` breaks it; several timers on one clock, as a composition of
`Instant`; `cli.cpp` as a second program over `Text`, with `parse` at the width
of `int`; payloads of a `Result` that alias.
