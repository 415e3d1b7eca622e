SPECIFICATION Spec
CONSTANTS
  single = single
  batch = batch
  e1 = e1
  e2 = e2
  k1 = k1
  NoKey = NoKey
  Publishers = {single, batch}
  Batches = {batch}
  Events = {e1, e2}
  Keys = {k1}
  Carries <- TwoCarry
  KeyOf <- KeyOfE1
  Statuses = {200, 422, 503}
  MaxAttempts = 2
  MaxRuns = 1
  BaseDelay = 100
  MaxDelay = 30000
  MultiplierCap = 4095
INVARIANTS
  SuccessMeansStored
  KeyedAtMostOnce
  RefusalLeavesNothing
PROPERTIES
  KeepsContract
CHECK_DEADLOCK FALSE
