CONSTANTS
  Threads = {t1, t2, t3}
  MinLong <- MCMinLong
  Lockers = {l1, l2, l3, l4}
  Locks = {s1, s2}
  nullptr = nullptr
SPECIFICATION MCSpec
INVARIANTS
  FlagCounts
  LockersAccounted
PROPERTIES
  WriterShutsDoor
  UpgradeCompletes
  ImplementsLock
