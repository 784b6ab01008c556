SPECIFICATION Spec
CONSTANTS
  Msgs = {m1, m2}
  Whitelist = {m1, m2}
  NoMsg = NoMsg
  Paths = {p1, p2}
  NoPath = NoPath
  Workers = {w1}
  Recoverer = Recoverer
  Refresher = Refresher
  QueueSize = 1
  DlqSize = 0
  MaxRetries = 0
  Whole = 1
  MaxFaults = 0
  MaxCrashes = 0
  MaxRotations = 0
  MaxRenumberings = 1
  MaxDisconnects = 0
PROPERTIES
  PersistedIsStored
CHECK_DEADLOCK FALSE
