SPECIFICATION HistSpec
CONSTANTS
  Threads = {t1, t2}
  NoThread = NoThread
  Paths = {p1}
  NoPath = NoPath
  EnvPath = p1
  MaxPool = 1
  MaxCalls = 3
  MaxConns = 2
  MemFails = FALSE
  ConnErrors = FALSE
  SendErrors = TRUE
  Reinits = TRUE
CHECK_DEADLOCK FALSE
INVARIANTS
  Quiescent
  RightAnswer
  OrderlyNeverAborts
PROPERTY
  KeepsPromise
