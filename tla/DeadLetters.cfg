SPECIFICATION FairSpec
CONSTANTS
  a = a
  b = b
  watcher = watcher
  command = command
  t1 = t1
  t2 = t2
  r1 = r1
  r2 = r2
  main = main
  Msgs = {a, b}
  NoMsg = NoMsg
  Procs = {watcher, command}
  Threads = {t1, t2}
  Owner <- OneThreadEach
  Retriers = {r1, r2, main}
  Mains = {main}
  Host <- TwoInTheCommand
  DlqSize = 1
  MaxRetries = 2
  BatchSize = 2
  MaxJobs = 2
  MaxFaults = 1
  MaxCrashes = 1
INVARIANTS
  TypeOK
  TableBounded
  CountedWasTried
PROPERTIES
  NothingVanishes
  LettersSettle
CONSTRAINTS TwoEvents OldIsFirst
CHECK_DEADLOCK FALSE
