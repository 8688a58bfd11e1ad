\* A builder changes its map while two threads read the message it built.
CONSTANTS
  t1 = t1
  t2 = t2
  b = b
  m1 = m1
  o1 = o1
  o2 = o2
  o3 = o3
  k1 = k1
  NULL = NULL
  Threads = {t1, t2}
  Fields = {b, m1}
  Builders = {b}
  MapFields = {o1, o2, o3}
  Keys = {k1}
  Values = {0, 1}
  DefaultValue = 0
  Calls <- AllCalls
  MaxEntries = 2
SPECIFICATION Spec
SYMMETRY Symmetry
INVARIANT GettersSeeContent
PROPERTY Implements
