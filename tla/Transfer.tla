------------------------------ MODULE Transfer ------------------------------
(***************************************************************************)
(* vix::read, vix::write and vix::print, the Inputs and Outputs they       *)
(* forward to, and the loops that Read.hpp and Write.hpp leave to their    *)
(* callers: an Input may fill part of a buffer, an Output may consume part *)
(* of a span, and either may fail between two calls.                       *)
(*                                                                         *)
(* Several clients share one Output, call by call.  A byte is identified   *)
(* by the client that sends it and its place in what that client sends.    *)
(***************************************************************************)
EXTENDS Naturals, Sequences

CONSTANTS
  Copier,    \* clients that read an Input into a buffer and write the buffer
  Printer,   \* clients that print a text
  Size,      \* Size[p]: bytes in the source, or in the text, of p
  Room,      \* Room[p]: size of the buffer a copier supplies
  Device,    \* the kinds of Output there may be: see Consumed
  Capacity   \* bytes the bounded Output can hold

Client == Copier \cup Printer

ASSUME ClientAssumption == Copier \cap Printer = {}
ASSUME SizeAssumption == Size \in [Client -> Nat] /\ Room \in [Client -> Nat]
ASSUME DeviceAssumption ==
  Device \subseteq {"memory", "partial", "bounded"} /\ Capacity \in Nat

VARIABLES
  device,    \* which kind this Output is
  position,  \* position[p]: MemoryInput::position_
  broken,    \* broken[p]: MemoryInput::failed_
  failed,    \* MemoryOutput::failed_
  bytes,     \* MemoryOutput::bytes_, what the Output consumed
  rest,      \* rest[p]: the span p has not delivered yet
  at         \* at[p]: what p does next

vars == <<device, position, broken, failed, bytes, rest, at>>

TypeOK ==
  /\ device \in Device
  /\ position \in [Client -> Nat] /\ \A p \in Client : position[p] <= Size[p]
  /\ broken \in [Client -> BOOLEAN]
  /\ failed \in BOOLEAN
  /\ bytes \in Seq(Client \X Nat)
  /\ rest \in [Client -> Seq(Nat)]
  /\ at \in [Client -> {"read", "write", "done", "error"}]

Least(m, n) == IF m < n THEN m ELSE n

\* A printer starts with its text at hand; the text may be empty.
Init ==
  /\ device \in Device
  /\ position = [p \in Client |-> IF p \in Copier THEN 0 ELSE Size[p]]
  /\ broken = [p \in Client |-> FALSE]
  /\ failed = FALSE
  /\ bytes = <<>>
  /\ rest = [p \in Client |-> IF p \in Copier THEN <<>>
                                  ELSE [i \in 1 .. Size[p] |-> i]]
  /\ at = [p \in Client |-> IF p \in Copier THEN "read" ELSE "write"]

-----------------------------------------------------------------------------
(* The devices.                                                            *)

\* fail()
BreakInput(p) ==
  /\ broken' = [broken EXCEPT ![p] = TRUE]
  /\ UNCHANGED <<device, position, failed, bytes, rest, at>>

BreakOutput ==
  /\ failed' = TRUE
  /\ UNCHANGED <<device, position, broken, bytes, rest, at>>

\* Mutant: the count is the size of the buffer, whatever remains.
WholeBuffer(p) == Room[p]

\* What read() returns: nothing at the end, else what fits and remains.
Count(p) ==
  IF position[p] >= Size[p] THEN 0 ELSE Least(Room[p], Size[p] - position[p])

\* position_ += count
Advanced(p) == position[p] + Count(p)

\* Mutant: half of the span, so nothing of a single byte.
Half(n) == IF device = "partial" THEN n \div 2 ELSE n

\* What write() returns for n bytes: all of them; one, if there is one; as many
\* as the array of the bounded Output still holds.
Consumed(n) ==
  CASE device = "memory"  -> n
    [] device = "partial" -> Least(1, n)
    [] device = "bounded" -> IF Len(bytes) >= Capacity THEN 0
                        ELSE Least(n, Capacity - Len(bytes))

-----------------------------------------------------------------------------
(* The clients.                                                            *)

\* A read that returns zero is the end of the source.
Read(p) ==
  /\ at[p] = "read"
  /\ ~broken[p]
  /\ rest' = [rest EXCEPT ![p] = [i \in 1 .. Count(p) |-> position[p] + i]]
  /\ position' = [position EXCEPT ![p] = Advanced(p)]
  /\ at' = [at EXCEPT ![p] = IF Count(p) = 0 THEN "done" ELSE "write"]
  /\ UNCHANGED <<device, broken, failed, bytes>>

ReadFails(p) ==
  /\ at[p] = "read"
  /\ broken[p]
  /\ at' = [at EXCEPT ![p] = "error"]
  /\ UNCHANGED <<device, position, broken, failed, bytes, rest>>

\* The bytes of p among the first n of its span, in order.
Sent(p, n) == [i \in 1 .. n |-> <<p, rest[p][i]>>]

\* Mutants: a successful write is taken for a complete one; the caller writes
\* the whole span again.
TakenForAll(p, n) == <<>>
WrittenAgain(p, n) == rest[p]

\* Write.hpp: callers continue writing the remaining bytes.
Remaining(p, n) == SubSeq(rest[p], n + 1, Len(rest[p]))

\* A delivered span is followed by the next read, a delivered text by nothing.
After(p) == IF p \in Copier THEN "read" ELSE "done"

Write(p) ==
  /\ at[p] = "write"
  /\ ~failed
  /\ LET n == Consumed(Len(rest[p])) IN
       /\ bytes' = bytes \o Sent(p, n)
       /\ rest' = [rest EXCEPT ![p] = Remaining(p, n)]
       /\ at' = [at EXCEPT ![p] = IF Remaining(p, n) = <<>> THEN After(p)
                                  ELSE "write"]
  /\ UNCHANGED <<device, position, broken, failed>>

WriteFails(p) ==
  /\ at[p] = "write"
  /\ failed
  /\ at' = [at EXCEPT ![p] = "error"]
  /\ UNCHANGED <<device, position, broken, failed, bytes, rest>>

Step(p) == Read(p) \/ ReadFails(p) \/ Write(p) \/ WriteFails(p)

Next ==
  \/ BreakOutput
  \/ \E p \in Copier : BreakInput(p)
  \/ \E p \in Client : Step(p)

Spec == Init /\ [][Next]_vars

\* Callers go on with their loops.
FairSpec == Spec /\ \A p \in Client : WF_vars(Step(p))

-----------------------------------------------------------------------------
(* Properties.                                                             *)

Delivered(p) == {k \in 1 .. Size[p] : \E i \in DOMAIN bytes : bytes[i] = <<p, k>>}

Pending(p) == {rest[p][i] : i \in DOMAIN rest[p]}

\* Between an Input and the Output no byte is lost or duplicated: what was read
\* is delivered or still to be delivered, and not both.
NothingLost ==
  \A p \in Client :
    /\ Delivered(p) \cup Pending(p) = 1 .. position[p]
    /\ Delivered(p) \cap Pending(p) = {}

\* The Output gets the bytes of each client once and in their order, however
\* the writes of other clients are interleaved with theirs.
InOrder ==
  \A i, j \in DOMAIN bytes :
    i < j /\ bytes[i][1] = bytes[j][1] => bytes[i][2] < bytes[j][2]

\* A client that ended without an error has delivered everything.
CompleteWhenDone ==
  \A p \in Client : at[p] = "done" => Delivered(p) = 1 .. Size[p]

Ended(p) == at[p] \in {"done", "error"}

\* The Output consumes nothing any more and says so as a success.
Full == device = "bounded" /\ Len(bytes) >= Capacity

\* Short reads and writes alone never keep a loop from ending: every client
\* ends unless the Output is full.
LoopsEndUnlessFull == \A p \in Client : <>(Ended(p) \/ Full)

\* The calls p may still have to make: a byte is read once and written once.
Effort(p) == 2 * (Size[p] - position[p]) + Len(rest[p])

\* The next write of p, if it succeeds, consumes nothing of what p has.
Idle(p) ==
  at[p] = "write" /\ rest[p] # <<>>
    /\ Remaining(p, Consumed(Len(rest[p]))) = rest[p]

\* Every call counts: only a full Output answers zero to a client that has
\* bytes, a call that returns brings its client nearer to its end or is its
\* end, and nothing anybody else does takes a client back.  So no loop calls
\* the devices more often than its source has bytes to read and to write,
\* until the Output is full (Read.hpp, Write.hpp).
CallsCount ==
  /\ [](\A p \in Client : Idle(p) => Full)
  /\ [][\A p \in Client :
          /\ Effort(p)' <= Effort(p)
          /\ Step(p) => Ended(p)' \/ Full \/ Effort(p)' < Effort(p)]_vars

\* Transfer implements Streams, if no caller supplies an empty buffer.
Promise == INSTANCE Streams WITH
  output <- bytes,
  sent <- [p \in Client |-> position[p] - Len(rest[p])],
  fate <- [p \in Client |-> IF Ended(p) THEN at[p] ELSE "open"],
  faulty <- {p \in Client : broken[p]},
  down <- failed

ImplementsStreams == Promise!SSpec
=============================================================================
