CONSTANTS
  Threads = {t1}
  PerThread = 1
  Objects = {o1}
  nullptr = nullptr
SPECIFICATION Spec
PROPERTY StartsAtOne
CHECK_DEADLOCK FALSE
