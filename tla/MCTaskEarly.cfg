SPECIFICATION Spec
CONSTANTS
  c1 = c1  c2 = c2  c3 = c3
  g1 = g1  g2 = g2  l1 = l1  l2 = l2  t1 = t1
  Main = Main  None = None  LogicError = LogicError
  Coro <- MCCoro
  Var <- MCVar
  Temp <- MCTemp
  VoidCoro <- MCVoid
  Home <- MCHome
  Leaf = {"yield", "event"}
  ResumeAwaiting = TRUE
INVARIANTS
  AwaitAfterCompletion
