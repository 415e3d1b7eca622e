SPECIFICATION Spec
CONSTANTS
  c1 = c1
  c2 = c2
  c3 = c3
  Calls = {c1, c2}
  Interval = 1
  Timeout = 1
  MaxVersion = 1
  MaxTime = 2
INVARIANTS
  FailureStaysHidden
CHECK_DEADLOCK FALSE
