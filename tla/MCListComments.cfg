CONSTANTS
  Types = {int, string, unit}
  unit_t = unit
  none_t = none
  MaxLen = 3
SPECIFICATION Spec
INVARIANT SomeCommentHolds
CHECK_DEADLOCK FALSE
