CONSTANTS
  Depth = 4
  Enders = {f1, f2}
  call = call
  nobody = nobody
  MaxMessages = 3
  Payloads = {p1, p2, p3}
  MaxCalls = 2
SPECIFICATION MCSpec
INVARIANTS
  OnlyMisuseBreaks
  TruthfulStatus
  AlwaysListening
  StopsClean
  FailedNeverResumed
  ReportsOutcome
PROPERTIES
  WrappedContains
  ReleasedIsFinished
  CallsAreAnswered
CHECK_DEADLOCK FALSE
