CONSTANTS
  Tasks = {t1, t2}
  Joiners = {j1}
  Word = 16
SPECIFICATION Spec
PROPERTY PublishedInOrder
CHECK_DEADLOCK FALSE
