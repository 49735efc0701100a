CONSTANTS
  Limit = 3
  Window = 6
  Second = 2
  MaxTime = 14
  None = None
SPECIFICATION Spec
PROPERTY
  RefillsContinuously
CHECK_DEADLOCK FALSE
