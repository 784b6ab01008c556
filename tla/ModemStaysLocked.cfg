SPECIFICATION FairSpec
CONSTANTS
  a = a
  b = b
  other = other
  Sims = {a, b}
  NoSim = NoSim
  Indices = {0, 1}
  NoIndex = NoIndex
  Boot = Boot
  Home <- HomeOfTwo
  Left = {}
  Pins <- TwoRightPins
  Unlocked = {}
  PinTries = 3
  Retries = 1
  MaxPolls = 3
  MaxTroubles = 0
PROPERTIES
  EveryModemIsUnlocked
CHECK_DEADLOCK FALSE
