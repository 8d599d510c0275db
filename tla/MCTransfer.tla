----------------------------- MODULE MCTransfer -----------------------------
(* Instances of Transfer: two copiers and a printer on one Output; buffers *)
(* smaller than, as large as and larger than what remains.                *)
EXTENDS Transfer
CONSTANTS a, b, t

MCSize == [p \in {a, b, t} |-> CASE p = a -> 3 [] p = b -> 2 [] OTHER -> 2]
MCRoom == [p \in {a, b, t} |-> CASE p = a -> 2 [] p = b -> 3 [] OTHER -> 0]
=============================================================================
