\* proto3: clearField drops the field builder.
CONSTANTS
  Depth = 3
  Scalars = {0, 1}
  FieldPresence = FALSE
  MaxBuilders = 3
  MaxFieldBuilders = 2
SPECIFICATION Spec
INVARIANT CacheIsContent
