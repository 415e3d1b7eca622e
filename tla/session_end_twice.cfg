SPECIFICATION Spec
CONSTANTS
  s1 = s1
  s2 = s2
  e1 = e1
  e2 = e2
  p1 = p1
  p2 = p2
  p3 = p3
  None = None
  Corrupt = Corrupt
  Starters = {s1}
  Enders = {e1, e2}
  Publishers = {p1}
  ActorType <- AnyType
  Flagged = {}
  Alt <- NoAlt
  Human = {}
  MaxAge = 1
  MaxTime = 2
  MaxBegun = 4
INVARIANTS
  EndIsIdempotent
CHECK_DEADLOCK FALSE
