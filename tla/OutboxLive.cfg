SPECIFICATION FairSpec
CONSTANTS
  Sms = {m1, m2}
  NoSms = NoSms
  Writers = {a1}
  Workers = {w1, w2}
  Urls = {u1}
  MaxAttempts = 2
  RestartAfterStale = TRUE
  MaxSaves = 2
  MaxFaults = 1
  MaxCrashes = 1
  MaxConfigs = 0
PROPERTIES
  EveryJobSettles
  EverySaveIsQueued
CONSTRAINT TwoSaves
CHECK_DEADLOCK FALSE
