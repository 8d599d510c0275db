SPECIFICATION Spec
CONSTANTS
  MaxRep = 7
  Millisecond = 2
  Count <- MCCount
  Factor = {2}
  None = None
INVARIANTS
  TypeOK
  ExpiryAgrees
  AnswersStayTrue
PROPERTIES
  NapEndsInTime
