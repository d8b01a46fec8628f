SPECIFICATION Spec
CONSTANTS
  Base = 8
  WordLen = 2
  FirstSize = 8
  MaxMessage = 28
  StrLen = 2
  Calls <- MCCalls
  Texts <- MCTexts
  Rooms = {2, 30}
  Widths <- AllWide
  UlongTypes = {1}
  Mechs = {5, 194}
  MechList = 7
  MaxMessages = 2
  MemFails = TRUE
  Damages = TRUE
  Skewed = FALSE
INVARIANTS
  TypeOK
  NoStray
  SentWhole
  Arrives
  RefusedForCause
  ReadsWhatItTakes
  OutputsFit
CHECK_DEADLOCK FALSE
