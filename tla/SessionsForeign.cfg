SPECIFICATION Spec
CONSTANTS
  Conns = {c1, c2, c3}
  Apps = {a, b}
  NoApp = NoApp
  Slots = {s1}
  MaxHandle = 2
  MaxSessions = 2
  OneConn = FALSE
  ModuleErrors = FALSE
SYMMETRY ConnAppSymmetry
CHECK_DEADLOCK FALSE
INVARIANTS
  OwnSessionsOnly
