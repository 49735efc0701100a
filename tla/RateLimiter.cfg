CONSTANTS
  Limit = 3
  Window = 6
  Second = 2
  MaxTime = 14
  None = None
SPECIFICATION Spec
INVARIANTS
  TypeOK
  WindowBound
  RetryAfterSuffices
  RetryAfterTight
PROPERTIES
  RefusedOnlyWhenFull
CHECK_DEADLOCK FALSE
