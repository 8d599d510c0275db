SPECIFICATION Spec
CONSTANTS
  f1 = f1  f2 = f2  f3 = f3  f4 = f4
  a = a  b = b  c = c
  in1 = in1  in2 = in2  in3 = in3
  Frame = {f1, f2, f3, f4}
  Var = {a, b, c, in1, in2, in3}
  Home <- MCHome
  Main = Main
  None = None
SYMMETRY MCSymmetry
INVARIANTS
  TypeOK
  OneCallEach
  HandlesAreSound
  NothingForgotten
PROPERTIES
  TreesEnd
  AssignTransfers
  ImplementsOwners
