----------------------------- MODULE MCInterval -----------------------------
(* A representation of four bits, two of its units to the millisecond;     *)
(* intervals that are negative, zero, positive and too long.               *)
EXTENDS Interval

MCCount == {-1, 0, 1, 4}
=============================================================================
