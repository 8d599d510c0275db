------------------------------ MODULE MCResult ------------------------------
(* Two Results over every combination of special members that may throw. *)
EXTENDS Result
=============================================================================
