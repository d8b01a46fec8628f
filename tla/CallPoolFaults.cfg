SPECIFICATION Spec
CONSTANTS
  Threads = {t1, t2}
  NoThread = NoThread
  Paths = {p1, p2}
  NoPath = NoPath
  EnvPath = p1
  MaxPool = 1
  MaxCalls = 3
  MaxConns = 3
  MemFails = TRUE
  ConnErrors = TRUE
  SendErrors = TRUE
  Reinits = TRUE
CHECK_DEADLOCK FALSE
SYMMETRY ThreadSymmetry
INVARIANTS
  TypeOK
  ExclusiveUse
  CallStatusAsserts
  
