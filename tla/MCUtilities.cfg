CONSTANTS
  Threads = {t1, t2, t3}
  PerThread = 2
  Objects = {o1, o2}
  nullptr = nullptr
  Types = {int, string, unit}
  unit_t = unit
  none_t = none
  MaxLen = 3
  Books = {b1, b2}
  Values = {zero, value}
  default = zero
  MaxOps = 4
  FieldNames = {"delete", "name", "title"}
  Oneofs = {"first", "second"}
  MaxFields = 3
  MaxCalls = 7
  MaxSaved = 2
SPECIFICATION MCSpec
INVARIANTS
  CountsReferences
  DeletedUnreferenced
  ListsMeetReference
  WireFaithful
  GeneratedCodeAgrees
  BuildersReachTheirMessage
PROPERTY ReadsKeepContents
CHECK_DEADLOCK FALSE
