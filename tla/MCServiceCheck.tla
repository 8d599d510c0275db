--------------------------- MODULE MCServiceCheck ---------------------------
(* Texts on both sides of the bounds of the port (3), of the timeout (3 at 2  *)
(* to the millisecond) and of Rep, each with and without a tail.              *)
EXTENDS ServiceCheck

MCNumber == {-9, -8, -1, 0, 1, 3, 4, 7, 8}
MCArgument ==
  {Empty, Word} \cup {Number(n, tail) : n \in MCNumber, tail \in BOOLEAN}
=============================================================================
