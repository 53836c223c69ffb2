CONSTANTS
  Object = {1, 2, 3}
  Null = Null
  Capacity = 2
  limit = 2
  may_sweep = TRUE
  MaxMisses = 1
SPECIFICATION Spec
INVARIANT WantedIsFound
PROPERTY MissesAreEarned
