----------------------------- MODULE MCInstant -----------------------------
(* A representation of four bits, two of its units to the millisecond. *)
EXTENDS Instant

MCCount == {-1, 3}
=============================================================================
