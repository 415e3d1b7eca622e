SPECIFICATION Spec
CONSTANTS
  s1 = s1
  s2 = s2
  e1 = e1
  e2 = e2
  p1 = p1
  p2 = p2
  p3 = p3
  None = None
  Corrupt = Corrupt
  Starters = {s1, s2}
  Enders = {e1, e2}
  Publishers = {p1, p2, p3}
  ActorType <- AnyType
  Flagged = {}
  Alt <- StaleAlt
  Human = {p1}
  MaxAge = 1
  MaxTime = 3
  MaxBegun = 3
CONSTRAINT FewBegin
SYMMETRY Interchangeable
INVARIANTS
  NoStaleSession
  SessionSticks
  RepeatNeedsEnd
  HintComesBack
CHECK_DEADLOCK FALSE
