SPECIFICATION FairSpec
CONSTANTS
  Sms = {m1}
  NoSms = NoSms
  Writers = {a1}
  Workers = {w1, w2}
  Urls = {u1}
  MaxAttempts = 2
  RestartAfterStale = FALSE
  MaxSaves = 2
  MaxFaults = 0
  MaxCrashes = 0
  MaxConfigs = 0
PROPERTIES
  QueuedContentIsSent
CHECK_DEADLOCK FALSE
