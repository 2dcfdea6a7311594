SPECIFICATION Spec
CONSTANTS
  U16Max = 127
  U8Max = 3
  U32Max = 20000
  U48Max = 31
  U64Max = 127
  MAX_SDDL_TEXT = 44
  IntMax = 7
  LongestSid = 3
  MaxEdits = 0
  MaxEditLen = 13
  MaxChunks = 1
  StringsUsed <- MCStringsOpen
  Meanings <- MCMeanings
  Held <- MCHeld
INVARIANTS WrappedOrNot
CHECK_DEADLOCK FALSE
