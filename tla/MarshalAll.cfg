SPECIFICATION Spec
CONSTANTS
  Calls <- AllCalls
  Ulongs = {0, 1}
  MaxLen = 2
  MaxAttrs = 2
  ZeroBuffers = FALSE
INVARIANTS
  SignaturesHold
  ArgumentsArrive
  Transparent
