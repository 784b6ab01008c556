SPECIFICATION Spec
CONSTANTS
  Sms = {s1}
  None = None
  Requests = {r1}
  Workers = {w1}
  QueueSize = 1
  MaxTries = 1
  Limit = 1
  MaxFaults = 0
INVARIANTS
  EchoIsSilent
CHECK_DEADLOCK FALSE
