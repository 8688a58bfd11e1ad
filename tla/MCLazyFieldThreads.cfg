\* Two threads use two fields whose bytes may not parse.
CONSTANTS
  t1 = t1
  t2 = t2
  t3 = t3
  f1 = f1
  f2 = f2
  p = p
  q = q
  Threads = {t1, t2}
  Fields = {f1, f2}
  Pieces = {p}
  Inputs = {p, Bad}
  Bad = Bad
  Garbled = Garbled
  NULL = NULL
  MaxPieces = 2
SPECIFICATION Spec
SYMMETRY Symmetry
INVARIANTS ParsedOnce TypeOK RegistryKept DelayedIsContent ValueIsContent EmptyIsContent BytesStable
