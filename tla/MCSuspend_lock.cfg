SPECIFICATION Spec
CONSTANTS
  Pages = 2
  Bars = FALSE
  Environments <- Both
INVARIANT NoSelfDeadlock
