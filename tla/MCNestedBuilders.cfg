\* proto2 builders of three levels.
CONSTANTS
  Depth = 3
  Scalars = {0, 1}
  FieldPresence = TRUE
  MaxBuilders = 3
  MaxFieldBuilders = 2
SPECIFICATION Spec
INVARIANT CacheIsContent
PROPERTY Implements
