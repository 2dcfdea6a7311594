SPECIFICATION MCSpec
CONSTANTS
  U16Max = 127
  U8Max = 3
  U32Max = 20000
  U48Max = 31
  U64Max = 127
  MAX_SDDL_TEXT = 44
  IntMax = 7
  LongestSid = 3
  MaxEdits = 1
  MaxEditLen = 13
  MaxChunks = 4
  StringsUsed <- MCStrings
  Meanings <- MCMeanings
  Held <- MCHeld
  MaxAcl = 30
  Sids <- MCSids
  Rights <- MCRights
  Order <- MCOrder
  Parent <- MCParent
  Containers <- MCContainers
  Tops <- MCTops
  Inners <- MCInners
  Edits <- MCEdits
  Owners = {"bob"}
  Mapping <- MCMapping
  MaxChanges = 1
INVARIANTS MeaningKept DecodeExact ReachExact StripFirst
PROPERTIES Settled VisitKeeps
CHECK_DEADLOCK FALSE
