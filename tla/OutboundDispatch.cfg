SPECIFICATION FairSpec
CONSTANTS
  Sms = {s1, s2}
  None = None
  Requests = {r1, r2}
  Workers = {w1, w2}
  QueueSize = 1
  MaxTries = 2
  Limit = 1
  MaxFaults = 2
INVARIANTS
  TypeOK
  SentWasAired
  AiredOnce
  NotifiedWasSent
  OneDispatcher
PROPERTIES
  EverySmsSettles
  SentIsNotified
CONSTRAINT OneEcho
CHECK_DEADLOCK FALSE
