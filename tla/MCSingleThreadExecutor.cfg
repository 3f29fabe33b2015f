CONSTANTS
  Clients = {c1, c2}
  Actions = {a1, a2, m1}
  Managed = {m1}
  Deferred = {d1, d2}
  MaxStarts = 2
  Producers = {p1, p2}
  Consumers = {s1, s2}
  Nodes = {n1, n2, n3}
  null = null
  MaxPush = 2
  Ordered = {s1}
  Tasks = {t1, t2}
  Joiners = {j1, j2}
  Word = 16
SPECIFICATION MCSpec
SYMMETRY MCSymmetry
INVARIANTS
  GlobalFifo
  DrainedAtExit
  DeferredRunFirst
  TokenOutlivesLoop
  OneOwner
  JoinCovers
PROPERTY ImplementsQueue
