SPECIFICATION Spec
CONSTANTS
  acc = acc
  prs = prs
  Sensors = {acc, prs}
  Clients = {log, view}
  Divider <- MCDivider
  FatalInit = {prs}
  RefMod = 4
INVARIANTS
  RefCountsHolders
  WakeUpNotLost
PROPERTIES
  OffOnlyIfReleased
  StraysByLostOrder
  RequiredIsRead
