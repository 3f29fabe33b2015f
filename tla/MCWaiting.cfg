CONSTANTS
  Waiters = {w1}
  TimedWaiters = {v1}
  EventSetters = {s1, s2}
  Clearers = {k1}
  nobody = nobody
  Coroutines = {c1, c2, c3}
  Setters = {s1, s2}
  Resetters = {r1}
  MaxSets = 3
  Results = {x1, x2}
  MaxWaits = 2
  Consumers = {c1, c2}
  Producers = {p1}
  Word = 16
  Strides = {1}
  Ahead = {1, 2}
  MaxPublished = 2
SPECIFICATION MCSpec
INVARIANTS
  OnlyUnheardSleep
  BothLinkedOnce
PROPERTIES
  WaitForReturns
  SetWakes
  ListenerHears
  PublishedWakes
CHECK_DEADLOCK FALSE
