SPECIFICATION FairSpec
CONSTANTS
  Threads = {d1, d2}
  Main = Main
  NoThread = NoThread
  Apps = {a, b}
  NoApp = NoApp
  OneConn = TRUE
  WaitEvents = TRUE
  Failures = FALSE
  Sigterms = FALSE
CHECK_DEADLOCK FALSE
INVARIANTS
  NoAbort
  NoJoinDeadlock
PROPERTIES
  AcceptReturns
  ThreadsEnd
