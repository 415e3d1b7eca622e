SPECIFICATION Spec
CONSTANTS
  a1 = a1
  a2 = a2
  f = f
  r = r
  get = get
  ls = ls
  st = st
  old = old
  new = new
  Old = Old
  None = None
  NoFile = NoFile
  Projects = {old, new}
  Registered = {old}
  Adders = {a1, a2}
  Forced = {}
  Removers = {}
  Readers = {ls}
  Tools = {}
  Target <- RaceTarget
  Reads <- RaceReads
INVARIANTS
  OverwritesOnlyWithForce
CHECK_DEADLOCK FALSE
