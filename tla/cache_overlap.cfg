SPECIFICATION FairSpec
CONSTANTS
  c1 = c1
  c2 = c2
  c3 = c3
  Calls = {c1, c2, c3}
  Interval = 2
  Timeout = 2
  MaxVersion = 2
  MaxTime = 4
INVARIANTS
  OnceAnsweredAlwaysAnswered
  RefreshesSpaced
PROPERTIES
  RegressionIsBounded
  EveryFetchEnds
CHECK_DEADLOCK FALSE
