----------------------------- MODULE MCTeardown -----------------------------
(* Three Tasks of the program, and one in the frame of each of three       *)
(* coroutines; a fourth coroutine has none.                                *)
EXTENDS Teardown, TLC

CONSTANTS f1, f2, f3, f4, a, b, c, in1, in2, in3

MCHome == (a :> Main) @@ (b :> Main) @@ (c :> Main) @@
          (in1 :> f1) @@ (in2 :> f2) @@ (in3 :> f3)

MCSymmetry == Permutations({a, b, c})
=============================================================================
