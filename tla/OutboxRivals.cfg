SPECIFICATION Spec
CONSTANTS
  Sms = {m1}
  NoSms = NoSms
  Writers = {a1, a2}
  Workers = {w1, w2}
  Urls = {u1, u2}
  MaxAttempts = 2
  RestartAfterStale = FALSE
  MaxSaves = 2
  MaxFaults = 1
  MaxCrashes = 1
  MaxConfigs = 1
SYMMETRY Symmetry
INVARIANTS
  TypeOK
  DeliveredWasReceived
  ExclusiveDelivery
  FailedOnlyWhenExhausted
  RoundsBounded
  WorkIsOwned
PROPERTIES
  TerminalIsFinal
  QuietAtRest
  ImplementsDelivery
CHECK_DEADLOCK FALSE
