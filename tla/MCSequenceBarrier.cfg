CONSTANTS
  Consumers = {c1, c2, c3}
  Producers = {p1}
  Word = 16
  Strides = {1}
  Ahead = {1, 2}
  MaxPublished = 2
SPECIFICATION Spec
SYMMETRY MCSymmetry
INVARIANTS
  ResultCoversTarget
  NoneForgotten
CHECK_DEADLOCK FALSE
