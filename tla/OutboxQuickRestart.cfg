SPECIFICATION FairSpec
CONSTANTS
  Sms = {m1}
  NoSms = NoSms
  Writers = {a1}
  Workers = {w1, w2}
  Urls = {u1}
  MaxAttempts = 2
  RestartAfterStale = FALSE
  MaxSaves = 1
  MaxFaults = 0
  MaxCrashes = 1
  MaxConfigs = 0
PROPERTIES
  EveryJobSettles
CHECK_DEADLOCK FALSE
