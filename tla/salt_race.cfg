CONSTANTS
  x1 = x1  x2 = x2  y1 = y1  y2 = y2  z = z
  Logins = {x1, x2}
  Logouts = {z}
  Readers = {z}
  Hosts = {y1, y2}
  Timeout = 1
  ReadTimeout = 1
  Lifetime = 1
  MaxTime = 3
  MaxWall = 2
  Synced = {z}
  Secret = {x1, x2}
  Salters = {y1, y2}
  MaxStarted = 3
  MaxOutages = 1
  Updates = {x1, x2}
  Tags <- SomeTags
  Markers = {"Homebrew", "Mise"}
  MaxAge = 2
  MaxRelease = 2
  MaxHours = 3
SPECIFICATION AllSpec
SYMMETRY Symmetry
CHECK_DEADLOCK FALSE
INVARIANT LoserIsUnobserved
