------------------------------- MODULE Streams -------------------------------
(***************************************************************************)
(* What several clients that share an Output are promised: each has a      *)
(* number of bytes to send, and what the Output gets from it is always the *)
(* beginning of them, piece by piece, whoever else sends meanwhile.  A     *)
(* client is done when it sent everything, and gets an error only when a   *)
(* device failed.                                                          *)
(***************************************************************************)
EXTENDS Naturals, Sequences

CONSTANTS
  Client,  \* those who send
  Size     \* Size[p]: the number of bytes p has to send

VARIABLES
  output,  \* the bytes the Output got, each with its sender
  sent,    \* sent[p]: how many of them are of p
  fate,    \* fate[p]: "open", "done" or "error"
  faulty,  \* the clients whose own Input failed
  down     \* the Output failed

svars == <<output, sent, fate, faulty, down>>

SInit ==
  /\ output = <<>>
  /\ sent = [p \in Client |-> 0]
  /\ fate = [p \in Client |-> "open"]
  /\ faulty = {}
  /\ down = FALSE

\* A device fails.
InputFails(p) ==
  /\ faulty' = faulty \cup {p}
  /\ UNCHANGED <<output, sent, fate, down>>

OutputFails ==
  /\ down' = TRUE
  /\ UNCHANGED <<output, sent, fate, faulty>>

\* The next n bytes of p arrive together; they may be its last.
Deliver(p, n) ==
  /\ fate[p] = "open" /\ ~down
  /\ sent[p] + n <= Size[p]
  /\ output' = output \o [i \in 1 .. n |-> <<p, sent[p] + i>>]
  /\ sent' = [sent EXCEPT ![p] = @ + n]
  /\ \/ fate' = fate
     \/ sent[p] + n = Size[p] /\ fate' = [fate EXCEPT ![p] = "done"]
  /\ UNCHANGED <<faulty, down>>

\* p learns that there is nothing left to send.
Finish(p) ==
  /\ fate[p] = "open"
  /\ sent[p] = Size[p]
  /\ fate' = [fate EXCEPT ![p] = "done"]
  /\ UNCHANGED <<output, sent, faulty, down>>

\* p learns that a device failed.
Fail(p) ==
  /\ fate[p] = "open"
  /\ down \/ p \in faulty
  /\ fate' = [fate EXCEPT ![p] = "error"]
  /\ UNCHANGED <<output, sent, faulty, down>>

SNext ==
  \/ OutputFails
  \/ \E p \in Client : InputFails(p) \/ Finish(p) \/ Fail(p)
  \/ \E p \in Client : \E n \in 1 .. Size[p] : Deliver(p, n)

SSpec == SInit /\ [][SNext]_svars
=============================================================================
