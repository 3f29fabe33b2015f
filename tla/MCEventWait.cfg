CONSTANTS
  Waiters = {w1}
  TimedWaiters = {}
  Setters = {s1}
  Clearers = {}
  nobody = nobody
SPECIFICATION FairSpec
PROPERTY WaitReturns
CHECK_DEADLOCK FALSE
