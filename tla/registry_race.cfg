SPECIFICATION Spec
CONSTANTS
  a1 = a1
  a2 = a2
  f = f
  r = r
  get = get
  ls = ls
  st = st
  old = old
  new = new
  Old = Old
  None = None
  NoFile = NoFile
  Projects = {old, new}
  Registered = {old}
  Adders = {a1, a2, f}
  Forced = {f}
  Removers = {r}
  Readers = {get, ls, st}
  Tools = {tool}
  Target <- RaceTarget
  Reads <- RaceReads
SYMMETRY Symmetry
INVARIANTS
  LossNeedsOverlap
  ExtrasNeedOverlap
  SteadyProjects
  OneFaultLeavesNothing
PROPERTIES
  NeverHalfWritten
CHECK_DEADLOCK FALSE
