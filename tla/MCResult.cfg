SPECIFICATION Spec
CONSTANTS
  Obj = {o1, o2}
  Val = {v1, v2}
  Err = {e1, e2}
  Moved = Moved
  None = None
INVARIANTS
  TypeOK
  EitherValueOrError
PROPERTIES
  FailureKeepsAlternatives
  ValuelessHasCause
  ImplementsOutcome
CHECK_DEADLOCK FALSE
