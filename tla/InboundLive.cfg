SPECIFICATION FairSpec
CONSTANTS
  Msgs = {m1}
  Whitelist = {m1}
  NoMsg = NoMsg
  Paths = {p1}
  NoPath = NoPath
  Workers = {w1}
  Recoverer = Recoverer
  Refresher = Refresher
  QueueSize = 1
  DlqSize = 1
  MaxRetries = 1
  Whole = 2
  MaxFaults = 1
  MaxCrashes = 0
  MaxRotations = 0
  MaxRenumberings = 0
  MaxDisconnects = 0
PROPERTIES
  PersistedIsStored
  EveryMessageIsPersisted
  DeadLettersSettle
CONSTRAINT LateTrouble
CHECK_DEADLOCK FALSE
