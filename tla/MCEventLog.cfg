SPECIFICATION Spec
CONSTANTS
  max_items = 3
  MaxClear = 1
INVARIANTS
  ListIsWhatWasAdded
  ViewerOnItem
PROPERTY EventShown
CHECK_DEADLOCK FALSE
