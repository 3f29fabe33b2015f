CONSTANTS
  Clients = {c1}
  Actions = {a1, m1}
  Managed = {m1}
  Calls = {f1}
  MaxStarts = 2
  Dispatched = {a1}
  Delayed = {}
  DelayedInIo = {d1}
  Periodic = {p1}
  Deferred = {f1}
  work = work
  none = none
SPECIFICATION MCSpec
INVARIANTS
  BothOwnedOnce
  ReadyRun
PROPERTIES
  EveryDispatchedRuns
  EveryStopEnds
CHECK_DEADLOCK FALSE
