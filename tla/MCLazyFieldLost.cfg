\* A parsed field is merged with another that came as bytes.
CONSTANTS
  t1 = t1
  t2 = t2
  t3 = t3
  f1 = f1
  f2 = f2
  p = p
  q = q
  Threads = {t1}
  Fields = {f1, f2}
  Pieces = {p}
  Inputs = {p}
  Bad = Bad
  Garbled = Garbled
  NULL = NULL
  MaxPieces = 2
SPECIFICATION Spec
SYMMETRY Symmetry
INVARIANTS NothingLost
