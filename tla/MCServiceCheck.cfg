SPECIFICATION Spec
CONSTANTS
  MaxRep = 7
  Millisecond = 2
  Digits = 1
  Buffer = 4
  MaximumPort = 3
  Argument <- MCArgument
  None = None
INVARIANTS
  AcceptsExactlyValid
  PrintsWhatWasAsked
  ReportsFirstFault
CHECK_DEADLOCK FALSE
