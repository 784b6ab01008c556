SPECIFICATION Spec
CONSTANTS
  Msgs = {m1, m2}
  Whitelist = {m1}
  NoMsg = NoMsg
  Paths = {p1}
  NoPath = NoPath
  Workers = {w1}
  Recoverer = Recoverer
  Refresher = Refresher
  QueueSize = 1
  DlqSize = 1
  MaxRetries = 1
  Whole = 1
  MaxFaults = 1
  MaxCrashes = 1
  MaxRotations = 1
  MaxRenumberings = 1
  MaxDisconnects = 1
INVARIANTS
  TypeOK
  TakenIsTracked
  OneRowPerMessage
  TextWasReceived
  NothingUnheard
PROPERTIES
  DlqLosesNothing
CONSTRAINT OneTrouble
CHECK_DEADLOCK FALSE
