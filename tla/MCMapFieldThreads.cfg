\* Two threads call everything on two generated map fields.
CONSTANTS
  t1 = t1
  t2 = t2
  f1 = f1
  f2 = f2
  k1 = k1
  k2 = k2
  NULL = NULL
  Threads = {t1, t2}
  Fields = {f1, f2}
  DynamicFields = {}
  Keys = {k1}
  Values = {0, 1}
  DefaultValue = 0
  Calls <- AllCalls
  MaxEntries = 1
SPECIFICATION Spec
SYMMETRY Symmetry
INVARIANTS TypeOK CallsSeeContent CleanIsSame NoConflict
PROPERTIES Implements
