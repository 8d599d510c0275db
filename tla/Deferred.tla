------------------------------ MODULE Deferred ------------------------------
(***************************************************************************)
(* What Task promises to the code that uses it: a deferred computation is  *)
(* created once, settles at most once and with one outcome, is observed    *)
(* only after it settled and with that outcome until an observer takes it  *)
(* away, and is dropped, possibly before it settled, once and for all.     *)
(***************************************************************************)
CONSTANTS
  Computation,  \* deferred computations
  Fate,         \* the outcomes a computation may settle with
  Takeable,     \* those an observer may take away
  Taken,        \* what is left of an outcome that was taken
  Unsettled     \* the outcome of one that has not settled

VARIABLES
  phase,    \* phase[c]: "none", "pending", "settled" or "dropped"
  outcome,  \* outcome[c]: what c settled with
  seen      \* seen[c]: what observers of c were given

dvars == <<phase, outcome, seen>>

DInit ==
  /\ phase = [c \in Computation |-> "none"]
  /\ outcome = [c \in Computation |-> Unsettled]
  /\ seen = [c \in Computation |-> {}]

\* Dropping a computation may drop others with it; its outcome is gone.
Dropped(f, D) == [c \in Computation |-> IF c \in D THEN "dropped" ELSE f[c]]
Forgotten(f, D) == [c \in Computation |-> IF c \in D THEN Unsettled ELSE f[c]]

Droppable(D) == \A c \in D : phase[c] \in {"pending", "settled"}

Begin(c) ==
  /\ phase[c] = "none"
  /\ phase' = [phase EXCEPT ![c] = "pending"]
  /\ UNCHANGED <<outcome, seen>>

Settle(c, r, D) ==
  /\ phase[c] = "pending"
  /\ c \notin D /\ Droppable(D)
  /\ phase' = Dropped([phase EXCEPT ![c] = "settled"], D)
  /\ outcome' = Forgotten([outcome EXCEPT ![c] = r], D)
  /\ UNCHANGED seen

See(c, D) ==
  /\ phase[c] = "settled"
  /\ Droppable(D)
  /\ phase' = Dropped(phase, D)
  /\ seen' = [seen EXCEPT ![c] = @ \cup {outcome[c]}]
  /\ outcome' = Forgotten(outcome, D)

Take(c) ==
  /\ phase[c] = "settled"
  /\ outcome[c] \in Takeable \cup {Taken}
  /\ seen' = [seen EXCEPT ![c] = @ \cup {outcome[c]}]
  /\ outcome' = [outcome EXCEPT ![c] = Taken]
  /\ UNCHANGED phase

Drop(D) ==
  /\ Droppable(D)
  /\ phase' = Dropped(phase, D)
  /\ outcome' = Forgotten(outcome, D)
  /\ UNCHANGED seen

DNext ==
  \/ \E c \in Computation : Begin(c) \/ Take(c)
  \/ \E D \in SUBSET Computation :
       \/ \E c \in Computation : See(c, D) \/ \E r \in Fate : Settle(c, r, D)
       \/ Drop(D)

DSpec == DInit /\ [][DNext]_dvars

=============================================================================
