------------------------------- MODULE MCTask -------------------------------
(* Instances of Task: three coroutines, c3 a Task<void>; two global Tasks and *)
(* one local of c1 and of c2, so ownership can nest three frames deep; c1 may *)
(* await c2 and c3 in one full expression, of which t1 is the first Awaiter.  *)
(* The liveness instance has one global only.                                 *)
EXTENDS Task
CONSTANTS c1, c2, c3, g1, g2, l1, l2, t1

MCCoro == {c1, c2, c3}
MCVoid == {c3}

HomeOf(v) == CASE v \in {l1, t1} -> c1 [] v = l2 -> c2 [] OTHER -> Main

MCVar == {g1, g2, l1, l2, t1}
MCTemp == {t1}
MCHome == [v \in MCVar |-> HomeOf(v)]

LiveVar == {g1, l1, l2, t1}
LiveHome == [v \in LiveVar |-> HomeOf(v)]
=============================================================================
