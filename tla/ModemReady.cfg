SPECIFICATION FairSpec
CONSTANTS
  a = a
  b = b
  other = other
  Sims = {a, b}
  NoSim = NoSim
  Indices = {0, 1, 2}
  NoIndex = NoIndex
  Boot = Boot
  Home <- HomeOfTwo
  Left = {0, 2}
  Pins <- OneRightPin
  Unlocked = {a}
  PinTries = 2
  Retries = 2
  MaxPolls = 1
  MaxTroubles = 1
INVARIANTS
  TypeOK
  RightPinKeepsTries
PROPERTIES
  BootEnds
  EveryWatcherHearsTheWorkingModem
CHECK_DEADLOCK FALSE
