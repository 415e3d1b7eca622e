SPECIFICATION FairSpec
CONSTANTS
  single = single
  batch = batch
  e1 = e1
  e2 = e2
  k1 = k1
  NoKey = NoKey
  Publishers = {single}
  Batches = {}
  Events = {e1}
  Keys = {k1}
  Carries <- OneCarries
  KeyOf <- OneKey
  Statuses = {200, 401, 403, 422, 429, 500}
  MaxAttempts = 4
  MaxRuns = 2
  BaseDelay = 100
  MaxDelay = 250
  MultiplierCap = 3
INVARIANTS
  SleepsOnlyBetweenAttempts
PROPERTIES
  PostsOnlyAfterTransient
  EveryInvocationEnds
CHECK_DEADLOCK FALSE
