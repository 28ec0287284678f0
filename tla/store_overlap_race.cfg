SPECIFICATION Spec
CONSTANTS
  Fetches = {f1, f2}
  Existing = {}
  Identities <- ThreeKeys
  Requests <- RangeBodies
  Subscribed = {"daily"}
  Foreign = {}
  MaxPages = 1
  MaxClock = 1
  Faults = {}
  ReaperDeletes = TRUE
  AuditTables = TRUE
  NoEntry = NoEntry
  NoBar = NoBar
  NoId = NoId
  NoExpiry = NoExpiry
  NoRequest = NoRequest
SYMMETRY FetchSymmetry
INVARIANTS
  NoOwnOverlap
CHECK_DEADLOCK FALSE
