\* Two threads use one dynamic map field of two keys.
CONSTANTS
  t1 = t1
  t2 = t2
  f1 = f1
  f2 = f2
  k1 = k1
  k2 = k2
  NULL = NULL
  Threads = {t1, t2}
  Fields = {f1}
  DynamicFields = {f1}
  Keys = {k1, k2}
  Values = {0, 1}
  DefaultValue = 0
  Calls <- AllCalls
  MaxEntries = 2
SPECIFICATION FairSpec
PROPERTIES EveryCallReturns
