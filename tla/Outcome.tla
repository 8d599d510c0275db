------------------------------- MODULE Outcome -------------------------------
(***************************************************************************)
(* What Result promises to the code that uses it: a set of sum values.  A  *)
(* payload is made when its Result is, or comes from another Result, whole *)
(* and with its alternative; what was moved from keeps its alternative.    *)
(* An operation that fails may at most spoil one payload, unless payloads  *)
(* may throw while they are moved: then an assignment may lose its target. *)
(***************************************************************************)
CONSTANTS
  Holder,   \* the objects
  Content,  \* what one may be made with: an alternative and its payload
  Spoilt,   \* a payload that is unspecified
  Nothing,  \* what a lost object holds
  Absent    \* no object

VARIABLES
  held,    \* held[o]: what o holds
  failed,  \* how the last operation failed, or "none"
  safe     \* no payload throws while it is moved

ovars == <<held, failed, safe>>

OInit ==
  /\ held = [o \in Holder |-> Absent]
  /\ failed = "none"
  /\ safe \in BOOLEAN

\* The payload of o was moved away.
Spoiling(o) ==
  IF held[o] \in {Nothing, Absent} THEN held
  ELSE [held EXCEPT ![o].data = Spoilt]

\* What reading o, perhaps to move from it, leaves.
Read(o) == {held, Spoiling(o)}

Done(f) == held' = f /\ failed' = "none" /\ UNCHANGED safe

\* o is made, with a payload that is computed from that of p, say.
Make(o, p, c) ==
  held[o] = Absent /\ \E f \in Read(p) : Done([f EXCEPT ![o] = c])

\* o is made or assigned from p.
Obtain(o, p) ==
  held[p] # Absent /\ \E f \in Read(p) : Done([f EXCEPT ![o] = held[p]])

Observe(o) == \E f \in Read(o) : Done(f)

End(o) == Done([held EXCEPT ![o] = Absent])

Fail(o) == failed' # "none" /\ held' \in Read(o) /\ UNCHANGED safe

Lose(o) ==
  /\ ~safe
  /\ held[o] # Absent
  /\ held' = [held EXCEPT ![o] = Nothing] /\ failed' = "payload"
  /\ UNCHANGED safe

ONext ==
  \E o \in Holder :
    \/ \E p \in Holder : Obtain(o, p) \/ \E c \in Content : Make(o, p, c)
    \/ Observe(o) \/ End(o) \/ Fail(o) \/ Lose(o)

OSpec == OInit /\ [][ONext]_ovars
=============================================================================
