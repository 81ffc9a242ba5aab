SPECIFICATION Spec
CONSTANTS
  num_sensors = 3
  Sourced = {0, 1}
  Rate <- MCRate
  Period = 2
  FlashFails = TRUE
INVARIANTS
  TypeOK
  HoldsWhatItLogs
  RowsMatchHeader
  ListsSound
PROPERTIES
  
  ShownComesTrue
CHECK_DEADLOCK FALSE
