SPECIFICATION AuditSpec
CONSTANTS
  MAX_DEPTH = 3
  MaxCount = 2
  MaxLen = 5
  AUDIT_CONTEXT_MAX_LEN = 16
  AUDIT_CONTEXT_MAX_DEPTH = 3
  AuditNames <- MCAuditNames
  AuditFields <- MCAuditFields
  Pieces <- MCPieces
  Requests <- MCRequests
  U32_MAX = 40
  MaxPieces = 3
  MaxFields = 2
INVARIANTS EncodedFits
CHECK_DEADLOCK FALSE
