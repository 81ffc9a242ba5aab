SPECIFICATION Spec
CONSTANTS
  max_items = 3
  MaxClear = 2
INVARIANT LastItemExists
CHECK_DEADLOCK FALSE
