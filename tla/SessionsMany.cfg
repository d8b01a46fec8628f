SPECIFICATION Spec
CONSTANTS
  Conns = {c1, c2}
  Apps = {a, b}
  NoApp = NoApp
  Slots = {s1, s2}
  MaxHandle = 2
  MaxSessions = 2
  OneConn = FALSE
  ModuleErrors = TRUE
SYMMETRY ConnAppSymmetry
CHECK_DEADLOCK FALSE
INVARIANTS
  TypeOK
  Remembered
