CONSTANTS
  Consumers = {c1, c2}
  Producers = {p1}
  Word = 16
  Strides = {1}
  Ahead = {1}
  MaxPublished = 1
SPECIFICATION Spec
PROPERTY ResumedInsidePublish
CHECK_DEADLOCK FALSE
