SPECIFICATION Spec
CONSTANTS
  MaxRep = 7
  Millisecond = 2
  Count <- MCCount
  Factor = {2, 3}
INVARIANT
  OnSchedule
PROPERTY
  WakeFindsWork
CHECK_DEADLOCK FALSE
