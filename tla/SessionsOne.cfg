SPECIFICATION Spec
CONSTANTS
  Conns = {c1, c2, c3}
  Apps = {a, b}
  NoApp = NoApp
  Slots = {s1, s2}
  MaxHandle = 3
  MaxSessions = 2
  OneConn = TRUE
  ModuleErrors = FALSE
SYMMETRY ConnAppSymmetry
CHECK_DEADLOCK FALSE
INVARIANTS
  OwnSessionsOnly
  CloseAllComplete
  GivenSessionsClosed
