SPECIFICATION Spec
CONSTANTS
  Threads = {d1, d2, d3}
  Main = Main
  NoThread = NoThread
  Apps = {a}
  NoApp = NoApp
  OneConn = FALSE
  WaitEvents = TRUE
  Failures = TRUE
  Sigterms = TRUE
CHECK_DEADLOCK FALSE
SYMMETRY ThreadAppSymmetry
INVARIANTS
  TypeOK
  ListExact
