SPECIFICATION FairSpec
CONSTANTS
  a = a  b = b  t = t
  Copier = {a, b}
  Printer = {t}
  Size <- MCSize
  Room <- MCRoom
  Device = {"memory", "partial", "bounded"}
  Capacity = 5
INVARIANTS
  TypeOK
  NothingLost
  InOrder
  CompleteWhenDone
PROPERTIES
  LoopsEndUnlessFull
  CallsCount
  ImplementsStreams
CHECK_DEADLOCK FALSE
