------------------------------- MODULE Owners -------------------------------
(***************************************************************************)
(* What owning coroutine frames through Tasks comes to, for those who only *)
(* see whole operations: the frames that exist are a forest with the main  *)
(* program at its root.  A frame is created in a place, may be given to a  *)
(* place that is not below itself, and ends in one step with everything    *)
(* below it.  Nothing else ends and nothing else changes place.            *)
(***************************************************************************)
CONSTANTS
  Frame,  \* coroutine frames
  Main    \* the main program

VARIABLES
  born,  \* the frames that have been created
  live,  \* those that have not ended
  holds  \* pairs <<p, f>>: the owner of f is in the frame p, or in Main

ovars == <<born, live, holds>>

OInit == born = {} /\ live = {} /\ holds = {}

\* The frames that end when f does.
Below(f) ==
  LET Closed == {S \in SUBSET Frame :
                   f \in S /\ \A e \in holds : e[1] \in S => e[2] \in S}
  IN  {g \in Frame : \A S \in Closed : g \in S}

\* The frames of D end.
Drop(D) ==
  /\ live' = live \ D
  /\ holds' = {e \in holds : e[2] \notin D}

\* f is held by p and nothing else.
Given(f, p) == {e \in holds : e[2] # f} \cup {<<p, f>>}

\* A coroutine is called in p.
Begin(f, p) ==
  /\ f \notin born /\ p \in live \cup {Main}
  /\ born' = born \cup {f}
  /\ live' = live \cup {f}
  /\ holds' = holds \cup {<<p, f>>}

\* What owns f lets it end.
End(f) ==
  LET D == Below(f) IN
  /\ f \in live
  /\ Drop(D)
  /\ UNCHANGED born

\* Those of F, which p holds, end together, and p does not: the end of p's body,
\* or of a full expression in it.
Release(p, F) ==
  LET D == UNION {Below(f) : f \in F} IN
  /\ p \in live /\ p \notin D
  /\ Drop(D)
  /\ UNCHANGED born

\* The ownership of f goes to p.
Move(f, p) ==
  /\ f \in live /\ p \in (live \cup {Main}) \ Below(f)
  /\ holds' = Given(f, p)
  /\ UNCHANGED <<born, live>>

\* What owned g, in p, owns f from now on; g ends.
Replace(g, f, p) ==
  /\ f \in live /\ <<p, g>> \in holds
  /\ f \notin Below(g) /\ p \notin Below(f)
  /\ live' = live \ Below(g)
  /\ holds' = {e \in Given(f, p) : e[2] \notin Below(g)}
  /\ UNCHANGED born

ONext ==
  \/ \E f \in Frame \ born, p \in live \cup {Main} : Begin(f, p)
  \/ \E p \in live : \E F \in SUBSET {f \in Frame : <<p, f>> \in holds} :
       Release(p, F)
  \/ \E f \in live : End(f)
  \/ \E f \in live, p \in live \cup {Main} : Move(f, p)
  \/ \E e \in holds, f \in live : Replace(e[2], f, e[1])

OSpec == OInit /\ [][ONext]_ovars
=============================================================================
