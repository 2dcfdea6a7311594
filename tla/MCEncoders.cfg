SPECIFICATION MCSpec
CONSTANTS
  MAX_DEPTH = 3
  MaxCount = 2
  MaxLen = 5
  Ints64 <- MCInts64
  Lengths <- MCLengths
  ExtTypes = {0, 255}
  Tails <- MCTails
  Mores = {0, 1, 2, 16, 300}
  U16Max = 95
  SD_MAX = 130
  SPEC_MAX = 300
  NAME_BYTES = 2
  MaxScopes = 2
  MaxLayers = 2
  MaxName = 2
  MaxCalls = 3
  AceSpecs <- MCAceSpecs
  SidArgs <- MCSids
  ControlArgs <- MCControl
  TokSids <- MCTokSids
  GidLists <- MCGids
  Claims <- MCClaims
  LcsArgs <- MCLcs
  SourceNames <- MCNames
  AUDIT_CONTEXT_MAX_LEN = 16
  AUDIT_CONTEXT_MAX_DEPTH = 3
  AuditNames <- MCAuditNames
  AuditFields <- MCAuditFields
  Pieces <- MCPieces
  Requests <- MCRequests
  U32_MAX = 40
  MaxPieces = 3
  MaxFields = 2
  ScmMaxFd = 3
  MaxFds = 4
  MaxCap = 4
  MaxSend = 2
  Extras = {"none", "creds"}
INVARIANTS
  ValidateExact SkipExact NothingDropped DrainExact WrittenExact ReadersAgree
  RenderedExact SidArrayExact RefusedForCause ContextExact CheckExact
  NothingLeaks CompleteUnlessFlagged InOrder
PROPERTIES StickyFirstError
CHECK_DEADLOCK FALSE
