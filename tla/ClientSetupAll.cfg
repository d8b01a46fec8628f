SPECIFICATION Spec
CONSTANTS
  Alphabet <- MCAlphabet
  MaxArgs = 5
  InitArgs <- MCInitArgs
  MaxEscapes = 1
  LooseEnds = FALSE
  HostChars = {"h", ":", "[", "]"}
  MaxHost = 6
  NAddrs = 2
  Worlds <- MCWorlds
  NFds = 3
  KeyFiles <- MCKeyFiles
  Identities <- MCIdentities
  LineBuf = 9
  MaxPsk = 2
  ArgsTwice = FALSE
  MaxCalls = 4
CHECK_DEADLOCK FALSE
INVARIANTS
  InputsTaken
  TlsHasKey
PROPERTIES
  ConnectEnds
