SPECIFICATION Spec
CONSTANTS
  Buttons = {"ARROW", "SELECT"}
  Hands = 1
  BootPress = FALSE
  Modes <- MCModes
  Timed = {"MAG"}
  Reliable = {"ACC"}
  buffer_len = 1
  RefMod = 4
  KeyInSwitch = FALSE
INVARIANTS
  TypeOK
  HoldsWhatItShows
  IdleKnowsPin
  TimerNotReused
PROPERTIES
  OneReportPerPush
  PushReported
  ShowsChosenMode
  TerminateReturns
