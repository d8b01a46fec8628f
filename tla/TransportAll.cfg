SPECIFICATION Spec
CONSTANTS
  Conns = {c1, c2}
  Modes = {"tcp", "tls", "inetd"}
  AppidLen = 2
  HeadLen = 2
  Lens = {1, 3}
  Window = 2
  MaxCalls = 2
  MaxInterrupts = 1
  Breaks = {"tcp"}
  WholeIo = {"inetd"}
  Serial = TRUE
  SigpipeKills = FALSE
INVARIANTS
  WholeItems
  InStep
PROPERTIES
  CallsEnd
  ThreadsEnd
CHECK_DEADLOCK FALSE
