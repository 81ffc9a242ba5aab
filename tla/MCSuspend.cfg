SPECIFICATION Spec
CONSTANTS
  Pages = 2
  Bars = FALSE
  Environments <- OneAtATime
INVARIANTS
  TypeOK
  NoDeadlock
  SuspendedHoldsLock
  NoDataToSleepingPanel
  ViewStaysLit
  UnsentIsDirty
  AwakeLoopNotStuck
PROPERTIES
  KeyResumes
  ErrorShown
  DrawnIsShown
