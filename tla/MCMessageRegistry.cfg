\* Two threads use two files: static initialisation, descriptors, prototypes.
CONSTANTS
  t1 = t1
  t2 = t2
  Threads = {t1, t2}
  file = file
  imported = imported
  Files <- MCFiles
  TypesOf <- MCTypesOf
  addOf <- MCAddOf
  assignOf <- MCAssignOf
  assign = assign
  add = add
  defaults = defaults
  sc_assign = sc_assign
  sc_add = sc_add
  sc_defaults = sc_defaults
  pool = pool
  factory = factory
  NULL = NULL
  Onces = {assign, add, defaults, sc_assign, sc_add, sc_defaults, pool, factory}
  Calls <- MCCalls
SPECIFICATION RegistrySpec
INVARIANTS TypeOK AtMostOnce DependenciesFirst NoTypeTwice
PROPERTIES ReturnsInitialized EveryCallReturns PrototypeReady EveryLookupReturns
